---- MODULE Spec2Model ----
(***************************************************************************)
(* Render Job Orchestrator: the job store rows, the in-memory activeJobs   *)
(* set and the processJob / processNextJob executions of the render        *)
(* server, one action per awaited step of the code.                        *)
(*                                                                         *)
(* The repository holds several iterations of the server.  Each has its    *)
(* own specification over the same variables:                              *)
(*   Spec      src/server.js lines 335-511 (processJob, HTTP trigger)      *)
(*   LiveSpec  the same, with the event loop's fairness                    *)
(*   SpecPoll  src/server.js lines 1-184 (processNextJob on a timer)       *)
(*   SpecP001  src/unnamed/part_001 lines 155-333 (processJob)             *)
(*   SpecP002  src/unnamed/part_002 lines 1-192 (processJob, safety poller)*)
(*   SpecP005  src/unnamed/part_005 lines 165-341 (processJob)             *)
(*   SpecGates the readiness loops of server.js, part_001 and part_005     *)
(*   SpecCompile  the stitch arguments and src/ffmpeg-builder.js           *)
(*   SpecUrl   ensureFullUrl of src/unnamed/part_002 lines 23-38           *)
(*   SpecP004  processJob of src/unnamed/part_004 lines 148-241            *)
(*   SpecFFmpeg  runFFmpeg of src/server.js lines 74-107                   *)
(***************************************************************************)
EXTENDS Integers, Sequences, FiniteSets, TLC

VARIABLES
    status,        \* story_script.status, per job id
    scriptData,    \* story_script.script_data, per job id
    finalUrl,      \* story_script.final_video_url, per job id ("" = null)
    errorMessage,  \* story_script.error_message, per job id ("" or NullMessage = null)
    progress,      \* story_script.progress_percentage, per job id
    activeJobs,    \* const activeJobs = new Set()
    entered,       \* per job id: processJob executions past the guard, not yet at finally
    lastCall,      \* the last processJob call: <<id, "entered" | "returned">>
    ex             \* the locals of the executions: of processJob per job id,
                   \* of processNextJob per timer tick in flight

vars == <<status, scriptData, finalUrl, errorMessage, progress,
          activeJobs, entered, lastCall, ex>>

store == <<status, scriptData, finalUrl, errorMessage, progress>>

----------------------------------------------------------------------------
(* Bounds of the model *)

\* rows of story_script in Spec
MaxJobs == 1
MaxScenes == 2
\* the readiness loop's attempt budget (30 in src/server.js:403); the loop is
\* modelled for any budget, checked for this one
MaxRetries == 2
\* rows of story_script and overlapping timer ticks in SpecPoll
MaxPollJobs == 2
MaxTicks == 2

JobIds == 1..MaxJobs
\* the ids of the rows of story_script
Jobs == DOMAIN status
\* req.body carries no id
NoId == 0

----------------------------------------------------------------------------
(* Job Store values *)

STATUS_PENDING == "PENDING"
STATUS_IN_PROGRESS == "PROCESSING_RENDER"
COMPLETED == "COMPLETED"
\* const STATUS_COMPLETED of the polling server (src/server.js:19)
STATUS_COMPLETED == "RENDERING_COMPLETE"
STATUS_FAILED == "FAILED"

Terminal == {COMPLETED, STATUS_COMPLETED, STATUS_FAILED}

\* An asset reference of a manifest: "" (absent, null or "null") or a location.
Refs == {"", "url"}

\* script_data: null, a string JSON.parse rejects, or a manifest object.
NullData == [kind |-> "null", logo_video |-> "", scenes |-> <<>>, music |-> ""]
BadData == [kind |-> "bad", logo_video |-> "", scenes |-> <<>>, music |-> ""]

SceneLists == UNION {[1..n -> Refs] : n \in 0..MaxScenes}

Manifests ==
    [kind : {"obj"}, logo_video : Refs, scenes : SceneLists, music : Refs]

----------------------------------------------------------------------------
(* Local files and encoder arguments *)

Path(asset, n, ext) == [asset |-> asset, n |-> n, ext |-> ext]

\* rawPaths[i] + '.ts'
TsPath(p) == Path(p.asset, p.n, "mp4.ts")

InPad(i, t) == [kind |-> "in", idx |-> i, name |-> t]
Label(name) == [kind |-> "label", idx |-> 0, name |-> name]

NoArgs == [inputs |-> <<>>, filter |-> <<>>, maps |-> <<>>]

RECURSIVE ConcatPadsReversed(_)
\* the pad pairs listed from the last input down to the first
ConcatPadsReversed(n) ==
    IF n = 0 THEN <<>>
    ELSE <<InPad(n - 1, "v"), InPad(n - 1, "a")>> \o ConcatPadsReversed(n - 1)

RECURSIVE ConcatPads(_)
\* processedPaths.forEach((p, idx) => concatFilter += `[${idx}:v][${idx}:a]`)
ConcatPads(n) ==
    IF n = 0 THEN <<>>
    ELSE ConcatPads(n - 1) \o <<InPad(n - 1, "v"), InPad(n - 1, "a")>>

ConcatStmt(n) ==
    [op |-> "concat", n |-> n, ins |-> ConcatPads(n),
     outs |-> <<Label("v"), Label("a")>>]

\* the amix statement with the music pad one input further on
AmixStmtNextInput(musicIdx) ==
    [op |-> "amix", n |-> 2, ins |-> <<Label("a"), InPad(musicIdx + 1, "a")>>,
     outs |-> <<Label("fa")>>]

AmixStmt(musicIdx) ==
    [op |-> "amix", n |-> 2, ins |-> <<Label("a"), InPad(musicIdx, "a")>>,
     outs |-> <<Label("fa")>>]

\* the silent source: '-f', 'lavfi', '-i', 'anullsrc=r=44100:cl=stereo'
Anullsrc == Path("anullsrc", 0, "lavfi")

\* [0:v]scale=1280:720:...,pad=...,setsar=1,fps=25,format=yuv420p[v]
ScaleStmt ==
    [op |-> "scale", n |-> 1, ins |-> <<InPad(0, "v")>>, outs |-> <<Label("v")>>]

\* STEP 1's argument list for one clip: the silent source is the mapped audio
StandardizeArgs(raw) ==
    [inputs |-> <<raw, Anullsrc>>, filter |-> <<ScaleStmt>>,
     maps |-> <<Label("v"), InPad(1, "a")>>]

\* StitchArgs that mixes in the music input whether or not it was fetched
StitchArgsAlwaysMix(processedPaths, mPath) ==
    [inputs |-> processedPaths,
     filter |-> <<ConcatStmt(Len(processedPaths)), AmixStmt(Len(processedPaths))>>,
     maps |-> <<Label("v"), Label("fa")>>]

\* StitchArgs that maps the video pad alone when there is no music
StitchArgsVideoOnly(processedPaths, mPath) ==
    IF mPath # {}
    THEN [inputs |-> processedPaths \o <<CHOOSE p \in mPath : TRUE>>,
          filter |-> <<ConcatStmt(Len(processedPaths)),
                       AmixStmt(Len(processedPaths))>>,
          maps |-> <<Label("v"), Label("fa")>>]
    ELSE [inputs |-> processedPaths,
          filter |-> <<ConcatStmt(Len(processedPaths))>>,
          maps |-> <<Label("v")>>]

\* the STITCH step's argument list: inputs, filter_complex statements, -map pads
StitchArgs(processedPaths, mPath) ==
    IF mPath # {}
    THEN [inputs |-> processedPaths \o <<CHOOSE p \in mPath : TRUE>>,
          filter |-> <<ConcatStmt(Len(processedPaths)),
                       AmixStmt(Len(processedPaths))>>,
          maps |-> <<Label("v"), Label("fa")>>]
    ELSE [inputs |-> processedPaths,
          filter |-> <<ConcatStmt(Len(processedPaths))>>,
          maps |-> <<Label("v"), Label("a")>>]

\* ffmpeg rejects a concat of zero segments (n=0): such a run cannot exit 0
EncoderCanSucceed(args) ==
    \A k \in 1..Len(args.filter) :
        args.filter[k].op = "concat" => args.filter[k].n >= 1

----------------------------------------------------------------------------
(* processJob, src/server.js lines 396-502 *)

ErrNone == ""
ErrNoScenes == "No scenes found in database"
ErrParse == "Unexpected token in JSON"
ErrFFmpeg == "FFmpeg exit code 1"

Idle ==
    [pc |-> "idle", retries |-> 0, reads |-> 0, sd |-> NullData,
     rawPaths |-> <<>>, i |-> 0, mPath |-> {}, processedPaths |-> <<>>,
     finalArgs |-> NoArgs, files |-> {}, err |-> ErrNone, upload |-> "none",
     sceneMiss |-> FALSE, musicMiss |-> FALSE, fetches |-> 0, encRuns |-> 0,
     wrote |-> "none", stdArgs |-> <<>>]

\* a guard that lets a call for an id in flight through
GuardNoIdOnly(id, active) == id = NoId

\* if (!scriptId || activeJobs.has(scriptId)) return;
GuardReturns(id, active) == id = NoId \/ id \in active

\* downloadAsset fetches only when ensureFullUrl gave a URL: it gives null for
\* an absent reference (!input, "null", "") and a URL for every other one
HasUrl(ref) == ref # ""

\* a readiness test that does not look at the number of scenes
ReadyAnyList(parsed) == Len(parsed.scenes) >= 0

\* parsed.scenes && parsed.scenes.length > 0
Ready(parsed) == Len(parsed.scenes) > 0

Set(j, r) == ex' = [ex EXCEPT ![j] = r]

\* a call processJob(id) up to its first await: the guard, activeJobs.add, and
\* the locals of the new execution; exBase is ex as the caller leaves it
processJobCall(id, fresh, exBase) ==
    /\ IF GuardReturns(id, activeJobs)
       THEN /\ lastCall' = <<id, "returned">>
            /\ ex' = exBase
            /\ UNCHANGED <<activeJobs, entered>>
       ELSE /\ lastCall' = <<id, "entered">>
            /\ activeJobs' = activeJobs \cup {id}
            /\ entered' = [entered EXCEPT ![id] = @ + 1]
            /\ ex' = [exBase EXCEPT ![id] = fresh]
    /\ UNCHANGED store

Enter(id, fresh) == processJobCall(id, fresh, ex)

\* app.post(['/render', '/process']): if (id) processJob(id)
Trigger(id) == Enter(id, [Idle EXCEPT !.pc = "poll"])

\* Poll with the loop test off by one (retries <= budget): one read too many
PollOneMore(j) ==
    /\ ex[j].pc = "poll"
    /\ \E readOk \in BOOLEAN :
         LET data == IF readOk THEN scriptData[j] ELSE NullData
             e == [ex[j] EXCEPT !.reads = @ + 1]
         IN  IF data.kind = "bad"
             THEN Set(j, [e EXCEPT !.pc = "catch", !.err = ErrParse])
             ELSE IF data.kind = "obj" /\ Ready(data)
             THEN Set(j, [e EXCEPT !.pc = "claim", !.sd = data])
             ELSE IF e.retries + 1 <= MaxRetries
             THEN Set(j, [e EXCEPT !.retries = @ + 1])
             ELSE Set(j, [e EXCEPT !.retries = @ + 1, !.pc = "catch",
                                   !.err = ErrNoScenes])
    /\ UNCHANGED <<store, activeJobs, entered, lastCall>>

\* one pass of the readiness loop: the read, the test, the sleep and retries++,
\* and after the last pass: if (!job) throw new Error("No scenes found in database")
Poll(j) ==
    /\ ex[j].pc = "poll"
    /\ \E readOk \in BOOLEAN :
         LET data == IF readOk THEN scriptData[j] ELSE NullData
             e == [ex[j] EXCEPT !.reads = @ + 1]
         IN  IF data.kind = "bad"
             THEN Set(j, [e EXCEPT !.pc = "catch", !.err = ErrParse])
             ELSE IF data.kind = "obj" /\ Ready(data)
             THEN Set(j, [e EXCEPT !.pc = "claim", !.sd = data])
             ELSE IF e.retries + 1 < MaxRetries
             THEN Set(j, [e EXCEPT !.retries = @ + 1])
             ELSE Set(j, [e EXCEPT !.retries = @ + 1, !.pc = "catch",
                                   !.err = ErrNoScenes])
    /\ UNCHANGED <<store, activeJobs, entered, lastCall>>

\* update({ status: 'PROCESSING_RENDER', progress_percentage: "40" })
Claim(j) ==
    /\ ex[j].pc = "claim"
    /\ status' = [status EXCEPT ![j] = STATUS_IN_PROGRESS]
    /\ progress' = [progress EXCEPT ![j] = 40]
    /\ Set(j, [ex[j] EXCEPT !.pc = "logo"])
    /\ UNCHANGED <<scriptData, finalUrl, errorMessage, activeJobs, entered, lastCall>>

\* downloadAsset(url, scriptId, assetName) of one asset: no fetch and null for a
\* null url, the file written and its path returned when the response is ok,
\* null when the fetch fails.  path is {} for null; miss tells a failed fetch.
downloadAsset(e, ref, ok, p) ==
    IF ~HasUrl(ref) THEN [e |-> e, path |-> {}, miss |-> FALSE]
    ELSE IF ok
    THEN [e |-> [e EXCEPT !.fetches = @ + 1, !.files = @ \cup {p}],
          path |-> {p}, miss |-> FALSE]
    ELSE [e |-> [e EXCEPT !.fetches = @ + 1], path |-> {}, miss |-> TRUE]

\* if (lPath) rawPaths.push(lPath); if (sPath) rawPaths.push(sPath)
PushRaw(e, path) ==
    IF path = {} THEN e
    ELSE [e EXCEPT !.rawPaths = Append(@, CHOOSE p \in path : TRUE)]

\* the logo download of an execution whose scene downloads run over `scenes`
DlLogo(j, scenes) ==
    /\ ex[j].pc = "logo"
    /\ \E ok \in BOOLEAN :
         LET d == downloadAsset(ex[j], ex[j].sd.logo_video, ok, Path("logo", 0, "mp4"))
         IN  Set(j, [PushRaw(d.e, d.path) EXCEPT
                         !.pc = IF Len(scenes) > 0 THEN "scene" ELSE "music",
                         !.i = 1])
    /\ UNCHANGED <<store, activeJobs, entered, lastCall>>

\* one pass of: for (let i = 0; i < scenes.length; i++) downloadAsset(...);
\* a scene whose fetch failed gives a null sPath and nothing is pushed
DlScene(j, scenes) ==
    /\ ex[j].pc = "scene"
    /\ \E ok \in BOOLEAN :
         LET i == ex[j].i
             d == downloadAsset(ex[j], scenes[i], ok, Path("scene", i - 1, "mp4"))
         IN  Set(j, [PushRaw(d.e, d.path) EXCEPT
                         !.sceneMiss = @ \/ d.miss,
                         !.pc = IF i < Len(scenes) THEN "scene" ELSE "music",
                         !.i = i + 1])
    /\ UNCHANGED <<store, activeJobs, entered, lastCall>>

\* after the downloads: the standardize loop, which zero clips skip
ToStandardize(e) == IF Len(e.rawPaths) > 0 THEN "standardize" ELSE "stitch"

DownloadLogo(j) == DlLogo(j, ex[j].sd.scenes)

DownloadScene(j) == DlScene(j, ex[j].sd.scenes)

\* const mPath = await downloadAsset(..., 'music', '.mp3'): null when the fetch
\* failed or there is no URL
DownloadMusic(j) ==
    /\ ex[j].pc = "music"
    /\ \E ok \in BOOLEAN :
         LET d == downloadAsset(ex[j], ex[j].sd.music, ok, Path("music", 0, "mp3"))
         IN  Set(j, [d.e EXCEPT !.mPath = d.path,
                                !.musicMiss = d.miss,
                                !.pc = ToStandardize(d.e), !.i = 1])
    /\ UNCHANGED <<store, activeJobs, entered, lastCall>>

\* a standardize pass that runs the encoder again after a non-zero exit
StandardizeWithRetry(j, args) ==
    /\ ex[j].pc = "standardize"
    /\ \E code \in {0, 1} :
         LET i == ex[j].i
             outP == TsPath(ex[j].rawPaths[i])
             e == [ex[j] EXCEPT !.encRuns = @ + 1, !.stdArgs = Append(@, args)]
         IN  IF code = 0
             THEN Set(j, [e EXCEPT !.processedPaths = Append(@, outP),
                                   !.files = @ \cup {outP},
                                   !.i = i + 1,
                                   !.pc = IF i < Len(e.rawPaths) THEN "standardize"
                                          ELSE "stitch"])
             ELSE IF e.encRuns <= Len(e.rawPaths)
             THEN Set(j, [e EXCEPT !.stdArgs = ex[j].stdArgs])
             ELSE Set(j, [e EXCEPT !.pc = "catch", !.err = ErrFFmpeg])
    /\ UNCHANGED <<store, activeJobs, entered, lastCall>>

\* one pass of the standardize loop, runFFmpeg called with args
StandardizeWith(j, args) ==
    /\ ex[j].pc = "standardize"
    /\ \E code \in {0, 1} :
         LET i == ex[j].i
             outP == TsPath(ex[j].rawPaths[i])
             e == [ex[j] EXCEPT !.encRuns = @ + 1, !.stdArgs = Append(@, args)]
         IN  IF code = 0
             THEN Set(j, [e EXCEPT !.processedPaths = Append(@, outP),
                                   !.files = @ \cup {outP},
                                   !.i = i + 1,
                                   !.pc = IF i < Len(e.rawPaths) THEN "standardize"
                                          ELSE "stitch"])
             ELSE Set(j, [e EXCEPT !.pc = "catch", !.err = ErrFFmpeg])
    /\ UNCHANGED <<store, activeJobs, entered, lastCall>>

\* STEP 1, one pass of: for (let i = 0; i < rawPaths.length; i++) runFFmpeg([...])
Standardize(j) ==
    /\ ex[j].pc = "standardize"
    /\ StandardizeWith(j, StandardizeArgs(ex[j].rawPaths[ex[j].i]))

\* the stitch: runFFmpeg(finalArgs) writing the output file
StitchWith(j, args) ==
    /\ ex[j].pc = "stitch"
    /\ \E code \in {0, 1} :
         LET e == [ex[j] EXCEPT !.encRuns = @ + 1, !.finalArgs = args]
         IN  /\ code = 0 => EncoderCanSucceed(args)
             /\ IF code = 0
                THEN Set(j, [e EXCEPT !.files = @ \cup {Path("final_output", 0, "mp4")},
                                      !.pc = "upload"])
                ELSE Set(j, [e EXCEPT !.pc = "catch", !.err = ErrFFmpeg])
    /\ UNCHANGED <<store, activeJobs, entered, lastCall>>

\* STEP 2: the final argument list and runFFmpeg(finalArgs)
Stitch(j) == StitchWith(j, StitchArgs(ex[j].processedPaths, ex[j].mPath))

\* fs.readFile(outPath) and storage.upload(...): the receipt is not looked at
Upload(j) ==
    /\ ex[j].pc = "upload"
    /\ \E receipt \in {"ok", "error"} :
         Set(j, [ex[j] EXCEPT !.upload = receipt, !.pc = "complete"])
    /\ UNCHANGED <<store, activeJobs, entered, lastCall>>

\* update({ status: 'COMPLETED', final_video_url, progress_percentage: "100" })
Complete(j) ==
    /\ ex[j].pc = "complete"
    /\ status' = [status EXCEPT ![j] = COMPLETED]
    /\ finalUrl' = [finalUrl EXCEPT ![j] = "public"]
    /\ progress' = [progress EXCEPT ![j] = 100]
    /\ Set(j, [ex[j] EXCEPT !.pc = "cleanup", !.wrote = COMPLETED])
    /\ UNCHANGED <<scriptData, errorMessage, activeJobs, entered, lastCall>>

\* Cleanup whose failed fs.unlink is not swallowed: it throws into the catch
CleanupThrows(j) ==
    /\ ex[j].pc = "cleanup"
    /\ \E unlinked \in BOOLEAN :
         IF unlinked
         THEN Set(j, [ex[j] EXCEPT !.files = {}, !.pc = "finally"])
         ELSE Set(j, [ex[j] EXCEPT !.err = ErrFFmpeg, !.pc = "catch"])
    /\ UNCHANGED <<store, activeJobs, entered, lastCall>>

\* the fs.unlink(p).catch(() => {}) calls after the COMPLETED write
Cleanup(j) ==
    /\ ex[j].pc = "cleanup"
    /\ \E unlinked \in BOOLEAN :
         Set(j, [ex[j] EXCEPT !.files = IF unlinked THEN {} ELSE @,
                              !.pc = "finally"])
    /\ UNCHANGED <<store, activeJobs, entered, lastCall>>

\* Catch that only logs the error and writes nothing to the Job Store
CatchLogOnly(j) ==
    /\ ex[j].pc = "catch"
    /\ Set(j, [ex[j] EXCEPT !.pc = "finally"])
    /\ UNCHANGED <<store, activeJobs, entered, lastCall>>

\* catch (e): update({ status: 'FAILED', error_message: e.message })
Catch(j) ==
    /\ ex[j].pc = "catch"
    /\ status' = [status EXCEPT ![j] = STATUS_FAILED]
    /\ errorMessage' = [errorMessage EXCEPT ![j] = ex[j].err]
    /\ Set(j, [ex[j] EXCEPT !.pc = "finally", !.wrote = STATUS_FAILED])
    /\ UNCHANGED <<scriptData, finalUrl, progress, activeJobs, entered, lastCall>>

\* an exit that leaves the id in activeJobs
FinallyKeepsId(j) ==
    /\ ex[j].pc = "finally"
    /\ entered' = [entered EXCEPT ![j] = @ - 1]
    /\ Set(j, Idle)
    /\ UNCHANGED <<store, activeJobs, lastCall>>

\* finally { activeJobs.delete(scriptId) }: the execution ends
Finally(j) ==
    /\ ex[j].pc = "finally"
    /\ activeJobs' = activeJobs \ {j}
    /\ entered' = [entered EXCEPT ![j] = @ - 1]
    /\ Set(j, Idle)
    /\ UNCHANGED <<store, lastCall>>

----------------------------------------------------------------------------
(* The upstream generation pipeline, the other writer of script_data *)

\* what upstream may store after m, out of the manifests M: anything over an
\* empty column, then only video locations filled in for scenes that had none
UpstreamNext(m, M) ==
    IF m.kind = "null" THEN M \cup {BadData}
    ELSE IF m.kind = "bad" THEN {}
    ELSE {n \in M :
            /\ n # m
            /\ n.logo_video = m.logo_video /\ n.music = m.music
            /\ Len(n.scenes) = Len(m.scenes)
            /\ \A k \in 1..Len(m.scenes) :
                   m.scenes[k] = "url" => n.scenes[k] = "url"}

UpstreamWrites(j, M) ==
    /\ \E m \in UpstreamNext(scriptData[j], M) :
         scriptData' = [scriptData EXCEPT ![j] = m]
    /\ UNCHANGED <<status, finalUrl, errorMessage, progress,
                   activeJobs, entered, lastCall, ex>>

UpstreamWrite(j) == UpstreamWrites(j, Manifests)

----------------------------------------------------------------------------

Init ==
    /\ status = [j \in JobIds |-> STATUS_PENDING]
    /\ scriptData = [j \in JobIds |-> NullData]
    /\ finalUrl = [j \in JobIds |-> ""]
    /\ errorMessage = [j \in JobIds |-> ""]
    /\ progress = [j \in JobIds |-> 0]
    /\ activeJobs = {}
    /\ entered = [j \in JobIds |-> 0]
    /\ lastCall = <<NoId, "none">>
    /\ ex = [j \in JobIds |-> Idle]

Next ==
    \/ \E id \in Jobs \cup {NoId} : Trigger(id)
    \/ \E j \in Jobs : Poll(j)
    \/ \E j \in Jobs : Claim(j)
    \/ \E j \in Jobs : DownloadLogo(j)
    \/ \E j \in Jobs : DownloadScene(j)
    \/ \E j \in Jobs : DownloadMusic(j)
    \/ \E j \in Jobs : Standardize(j)
    \/ \E j \in Jobs : Stitch(j)
    \/ \E j \in Jobs : Upload(j)
    \/ \E j \in Jobs : Complete(j)
    \/ \E j \in Jobs : Cleanup(j)
    \/ \E j \in Jobs : Catch(j)
    \/ \E j \in Jobs : Finally(j)
    \/ \E j \in Jobs : UpstreamWrite(j)

Spec == Init /\ [][Next]_vars

\* the steps of the processJob execution for id j
Step(j) ==
    \/ Poll(j) \/ Claim(j)
    \/ DownloadLogo(j) \/ DownloadScene(j) \/ DownloadMusic(j)
    \/ Standardize(j) \/ Stitch(j) \/ Upload(j)
    \/ Complete(j) \/ Cleanup(j) \/ Catch(j) \/ Finally(j)

\* Every awaited call returns, and the event loop then runs the continuation:
\* an execution that can take a step eventually takes it.
LiveSpec == Init /\ [][Next]_vars /\ \A j \in JobIds : WF_vars(Step(j))

----------------------------------------------------------------------------
(* The polling server: processNextJob on a timer, src/server.js lines 1-184 *)

ErrNoMusic == "Could not download background music from music_tracks table."
ErrFFmpegExited == "FFmpeg exited 1"
ErrFetch == "request failed"

\* errorMsg.substring(0, 500)
MaxErrorLength == 500

\* e.message: a string, of which the model keeps what it says and how many
\* characters it has; null is the default of updateJobStatus' errorMsg
NullMessage == [kind |-> "null", text |-> "", len |-> 0]
Message(text, len) == [kind |-> "str", text |-> text, len |-> len]

\* the lengths of the message of an error that the code does not raise itself
MessageLengths == {0, 1, MaxErrorLength, MaxErrorLength + 1}

\* msg.substring(0, n)
substring(msg, n) == [msg EXCEPT !.len = IF @ < n THEN @ ELSE n]

Ticks == 1..MaxTicks

\* script_data of a row of the polling server: background_music is absent, an
\* http URL, or the title / file path of a track
PollData ==
    {m \in [kind : {"obj"}, logo_video : {""}, scenes : {<<>>},
            music : {"", "url", "name"}] : TRUE}

TickIdle ==
    [pc |-> "idle", job |-> NoId, sd |-> NullData, logoUrl |-> "", musicUrl |-> "",
     lPath |-> {}, mPath |-> {}, files |-> {}, err |-> NullMessage, upload |-> "none"]

\* updateJobStatus as an update that leaves error_message alone when no
\* errorMsg is given
updateJobStatusKeepsMessage(scriptId, st, pr, errorMsg, videoUrl) ==
    /\ status' = [status EXCEPT ![scriptId] = st]
    /\ progress' = [progress EXCEPT ![scriptId] = pr]
    /\ errorMessage' = [errorMessage EXCEPT ![scriptId] =
                           IF errorMsg.kind = "str" /\ errorMsg.len > 0
                           THEN substring(errorMsg, MaxErrorLength)
                           ELSE @]
    /\ finalUrl' = [finalUrl EXCEPT ![scriptId] = videoUrl]
    /\ UNCHANGED scriptData

\* updateJobStatus(scriptId, status, progress, errorMsg = null, videoUrl = null):
\* one update of the four columns
updateJobStatus(scriptId, st, pr, errorMsg, videoUrl) ==
    /\ status' = [status EXCEPT ![scriptId] = st]
    /\ progress' = [progress EXCEPT ![scriptId] = pr]
    /\ errorMessage' = [errorMessage EXCEPT ![scriptId] =
                           IF errorMsg.kind = "str" /\ errorMsg.len > 0
                           THEN substring(errorMsg, MaxErrorLength)
                           ELSE NullMessage]
    /\ finalUrl' = [finalUrl EXCEPT ![scriptId] = videoUrl]
    /\ UNCHANGED scriptData

\* getSafeUrl(input): null for no input, else a URL (built for a bare name)
getSafeUrlIsNull(input) == input = ""

\* a timer tick: select('*').eq('status', STATUS_PENDING).limit(1), and
\* if (!jobs || jobs.length === 0) return
processNextJob_Select(t) ==
    /\ ex[t].pc = "idle"
    /\ IF \E j \in Jobs : status[j] = STATUS_PENDING
       THEN \E j \in Jobs :
              /\ status[j] = STATUS_PENDING
              /\ Set(t, [TickIdle EXCEPT !.pc = "claim", !.job = j, !.sd = scriptData[j]])
       ELSE UNCHANGED ex
    /\ UNCHANGED <<store, activeJobs, entered, lastCall>>

\* await updateJobStatus(job.id, STATUS_IN_PROGRESS, 10)
processNextJob_Claim(t) ==
    /\ ex[t].pc = "claim"
    /\ updateJobStatus(ex[t].job, STATUS_IN_PROGRESS, 10, NullMessage, "")
    /\ Set(t, [ex[t] EXCEPT !.pc = "resolve"])
    /\ UNCHANGED <<activeJobs, entered, lastCall>>

\* 1. RESOLVE LOGO and 2. RESOLVE MUSIC: the lookups in logo_videos and
\* music_tracks; a track name that is found becomes its URL
processNextJob_Resolve(t) ==
    /\ ex[t].pc = "resolve"
    /\ \E logoUrl \in {"", "url"}, trackFound \in BOOLEAN :
         LET music == ex[t].sd.music
             musicUrl == IF music = "name" /\ trackFound THEN "url" ELSE music
         IN  Set(t, [ex[t] EXCEPT !.logoUrl = logoUrl, !.musicUrl = musicUrl,
                                  !.pc = "logo"])
    /\ UNCHANGED <<store, activeJobs, entered, lastCall>>

\* downloadAsset of the polling server: null for no URL or a response that is
\* not ok; a fetch that rejects is not caught here and throws out of it
FetchOutcomes == {"ok", "notok", "throws"}

\* const lPath = await downloadAsset(logoUrl, job.id, 'logo')
processNextJob_DownloadLogo(t) ==
    /\ ex[t].pc = "logo"
    /\ \E r \in FetchOutcomes :
         LET p == Path("logo", 0, "mp4")
         IN  IF getSafeUrlIsNull(ex[t].logoUrl) \/ r = "notok"
             THEN Set(t, [ex[t] EXCEPT !.pc = "music"])
             ELSE IF r = "ok"
             THEN Set(t, [ex[t] EXCEPT !.lPath = {p}, !.files = @ \cup {p},
                                      !.pc = "music"])
             ELSE \E n \in MessageLengths :
                    Set(t, [ex[t] EXCEPT !.err = Message(ErrFetch, n), !.pc = "catch"])
    /\ UNCHANGED <<store, activeJobs, entered, lastCall>>

\* const mPath = await downloadAsset(musicUrl, job.id, 'music');
\* if (!mPath) throw new Error("Could not download background music ...")
processNextJob_DownloadMusic(t) ==
    /\ ex[t].pc = "music"
    /\ \E r \in FetchOutcomes :
         LET p == Path("music", 0, "mp3")
         IN  IF getSafeUrlIsNull(ex[t].musicUrl) \/ r = "notok"
             THEN Set(t, [ex[t] EXCEPT !.err = Message(ErrNoMusic, 61), !.pc = "catch"])
             ELSE IF r = "ok"
             THEN Set(t, [ex[t] EXCEPT !.mPath = {p}, !.files = @ \cup {p},
                                      !.pc = "progress"])
             ELSE \E n \in MessageLengths :
                    Set(t, [ex[t] EXCEPT !.err = Message(ErrFetch, n), !.pc = "catch"])
    /\ UNCHANGED <<store, activeJobs, entered, lastCall>>

\* await updateJobStatus(job.id, STATUS_IN_PROGRESS, 50)
processNextJob_Progress(t) ==
    /\ ex[t].pc = "progress"
    /\ updateJobStatus(ex[t].job, STATUS_IN_PROGRESS, 50, NullMessage, "")
    /\ Set(t, [ex[t] EXCEPT !.pc = "ffmpeg"])
    /\ UNCHANGED <<activeJobs, entered, lastCall>>

\* const finalPath = await runFFmpeg(job, lPath, mPath)
processNextJob_RunFFmpeg(t) ==
    /\ ex[t].pc = "ffmpeg"
    /\ \E code \in {0, 1} :
         IF code = 0
         THEN Set(t, [ex[t] EXCEPT !.files = @ \cup {Path("final", 0, "mp4")},
                                  !.pc = "upload"])
         ELSE Set(t, [ex[t] EXCEPT !.err = Message(ErrFFmpegExited, 15), !.pc = "catch"])
    /\ UNCHANGED <<store, activeJobs, entered, lastCall>>

\* fs.readFile(finalPath) and storage.upload(...): the receipt is not looked at
processNextJob_Upload(t) ==
    /\ ex[t].pc = "upload"
    /\ \E receipt \in {"ok", "error"} :
         Set(t, [ex[t] EXCEPT !.upload = receipt, !.pc = "complete"])
    /\ UNCHANGED <<store, activeJobs, entered, lastCall>>

\* await updateJobStatus(job.id, STATUS_COMPLETED, 100, null, pUrl.publicUrl)
processNextJob_Complete(t) ==
    /\ ex[t].pc = "complete"
    /\ updateJobStatus(ex[t].job, STATUS_COMPLETED, 100, NullMessage, "public")
    /\ Set(t, [ex[t] EXCEPT !.pc = "cleanup"])
    /\ UNCHANGED <<activeJobs, entered, lastCall>>

\* Clean up: the three fs.unlink calls, then the function returns
processNextJob_Cleanup(t) ==
    /\ ex[t].pc = "cleanup"
    /\ Set(t, TickIdle)
    /\ UNCHANGED <<store, activeJobs, entered, lastCall>>

\* catch (e): await updateJobStatus(job.id, STATUS_FAILED, 0, e.message)
processNextJob_Catch(t) ==
    /\ ex[t].pc = "catch"
    /\ updateJobStatus(ex[t].job, STATUS_FAILED, 0, ex[t].err, "")
    /\ Set(t, TickIdle)
    /\ UNCHANGED <<activeJobs, entered, lastCall>>

InitPoll ==
    /\ status = [j \in 1..MaxPollJobs |-> STATUS_PENDING]
    /\ scriptData \in [1..MaxPollJobs -> PollData]
    /\ finalUrl = [j \in 1..MaxPollJobs |-> ""]
    /\ errorMessage = [j \in 1..MaxPollJobs |-> NullMessage]
    /\ progress = [j \in 1..MaxPollJobs |-> 0]
    /\ activeJobs = {}
    /\ entered = [j \in 1..MaxPollJobs |-> 0]
    /\ lastCall = <<NoId, "none">>
    /\ ex = [t \in Ticks |-> TickIdle]

NextPoll ==
    \/ \E t \in Ticks : processNextJob_Select(t)
    \/ \E t \in Ticks : processNextJob_Claim(t)
    \/ \E t \in Ticks : processNextJob_Resolve(t)
    \/ \E t \in Ticks : processNextJob_DownloadLogo(t)
    \/ \E t \in Ticks : processNextJob_DownloadMusic(t)
    \/ \E t \in Ticks : processNextJob_Progress(t)
    \/ \E t \in Ticks : processNextJob_RunFFmpeg(t)
    \/ \E t \in Ticks : processNextJob_Upload(t)
    \/ \E t \in Ticks : processNextJob_Complete(t)
    \/ \E t \in Ticks : processNextJob_Cleanup(t)
    \/ \E t \in Ticks : processNextJob_Catch(t)

SpecPoll == InitPoll /\ [][NextPoll]_vars

----------------------------------------------------------------------------
(* processJob of src/unnamed/part_001, lines 230-324 *)

ErrTimeout == "Timeout: ScVideo did not finish the video clips in time."
ErrNullRow == "Cannot read properties of null (reading 'script_data')"

\* a scene's video_url: absent, a video location, or an image placeholder
P1Refs == {"", "url", "img"}

\* isVideoUrl(url): false for no url and for an image extension
isVideoUrl(url) == url = "url"

P1SceneLists == UNION {[1..n -> P1Refs] : n \in 0..MaxScenes}

P1Manifests ==
    [kind : {"obj"}, logo_video : Refs, scenes : P1SceneLists, music : Refs]

\* sd.scenes.filter(s => isVideoUrl(s.video_url))
videoScenes(sd) == SelectSeq(sd.scenes, isVideoUrl)

\* readyVideoClips.length > 0 && readyVideoClips.length === scenes.length
P1_Ready(parsed) ==
    /\ Len(videoScenes(parsed)) > 0
    /\ Len(videoScenes(parsed)) = Len(parsed.scenes)

\* [0:a][1:a]amix=inputs=2:duration=first[a]
P1_AmixStmt ==
    [op |-> "amix", n |-> 2, ins |-> <<InPad(0, "a"), InPad(1, "a")>>,
     outs |-> <<Label("a")>>]

\* fArgs of the standardize loop: the clip's own audio mixed with the silent
\* source when the probe found an audio stream, else the silent source mapped
P1_StandardizeArgs(raw, audioFound) ==
    IF audioFound
    THEN [inputs |-> <<raw, Anullsrc>>, filter |-> <<ScaleStmt, P1_AmixStmt>>,
          maps |-> <<Label("v"), Label("a")>>]
    ELSE [inputs |-> <<raw, Anullsrc>>, filter |-> <<ScaleStmt>>,
          maps |-> <<Label("v"), InPad(1, "a")>>]

\* concat=n=${processedPaths.length}:v=1:a=1[vv][aa]
P1_ConcatStmt(n) ==
    [op |-> "concat", n |-> n, ins |-> ConcatPads(n),
     outs |-> <<Label("vv"), Label("aa")>>]

\* [aa]volume=1.0[v1]; [n:a]volume=0.3[v2]; [v1][v2]amix=inputs=2:duration=first[fa]
P1_MixStmts(n) ==
    << [op |-> "volume=1.0", n |-> 1, ins |-> <<Label("aa")>>, outs |-> <<Label("v1")>>],
       [op |-> "volume=0.3", n |-> 1, ins |-> <<InPad(n, "a")>>, outs |-> <<Label("v2")>>],
       [op |-> "amix", n |-> 2, ins |-> <<Label("v1"), Label("v2")>>,
        outs |-> <<Label("fa")>>] >>

\* finalArgs
P1_StitchArgs(processedPaths, mPath) ==
    IF mPath # {}
    THEN [inputs |-> processedPaths \o <<CHOOSE p \in mPath : TRUE>>,
          filter |-> <<P1_ConcatStmt(Len(processedPaths))>>
                         \o P1_MixStmts(Len(processedPaths)),
          maps |-> <<Label("vv"), Label("fa")>>]
    ELSE [inputs |-> processedPaths,
          filter |-> <<P1_ConcatStmt(Len(processedPaths))>>,
          maps |-> <<Label("vv"), Label("aa")>>]

\* app.post(['/render', '/process']): if (id) processJob(id)
P1_Trigger(id) == Enter(id, [Idle EXCEPT !.pc = "claim"])

\* the first await: update({ status: 'PROCESSING_RENDER', progress_percentage: "40" })
P1_Claim(j) ==
    /\ ex[j].pc = "claim"
    /\ status' = [status EXCEPT ![j] = STATUS_IN_PROGRESS]
    /\ progress' = [progress EXCEPT ![j] = 40]
    /\ Set(j, [ex[j] EXCEPT !.pc = "poll"])
    /\ UNCHANGED <<scriptData, finalUrl, errorMessage, activeJobs, entered, lastCall>>

\* one pass of while (retries < 150): the read (data is null when it fails, and
\* data.script_data then throws), the parse, the test, the sleep and retries++
P1_Poll(j) ==
    /\ ex[j].pc = "poll"
    /\ \E readOk \in BOOLEAN :
         LET data == scriptData[j]
             e == [ex[j] EXCEPT !.reads = @ + 1]
         IN  IF ~readOk
             THEN Set(j, [e EXCEPT !.pc = "catch", !.err = ErrNullRow])
             ELSE IF data.kind = "bad"
             THEN Set(j, [e EXCEPT !.pc = "catch", !.err = ErrParse])
             ELSE IF data.kind = "obj" /\ P1_Ready(data)
             THEN Set(j, [e EXCEPT !.pc = "logo", !.sd = data])
             ELSE IF e.retries + 1 < MaxRetries
             THEN Set(j, [e EXCEPT !.retries = @ + 1])
             ELSE Set(j, [e EXCEPT !.retries = @ + 1, !.pc = "catch",
                                   !.err = ErrTimeout])
    /\ UNCHANGED <<store, activeJobs, entered, lastCall>>

P1_DownloadLogo(j) == DlLogo(j, videoScenes(ex[j].sd))

P1_DownloadScene(j) == DlScene(j, videoScenes(ex[j].sd))

\* one pass of the standardize loop: hasAudio(rawPaths[i]), then runFFmpeg(fArgs)
P1_Standardize(j) ==
    /\ ex[j].pc = "standardize"
    /\ \E audioFound \in BOOLEAN :
         StandardizeWith(j, P1_StandardizeArgs(ex[j].rawPaths[ex[j].i], audioFound))

P1_Stitch(j) == StitchWith(j, P1_StitchArgs(ex[j].processedPaths, ex[j].mPath))

NextP001 ==
    \/ \E id \in Jobs \cup {NoId} : P1_Trigger(id)
    \/ \E j \in Jobs : P1_Claim(j)
    \/ \E j \in Jobs : P1_Poll(j)
    \/ \E j \in Jobs : P1_DownloadLogo(j)
    \/ \E j \in Jobs : P1_DownloadScene(j)
    \/ \E j \in Jobs : DownloadMusic(j)
    \/ \E j \in Jobs : P1_Standardize(j)
    \/ \E j \in Jobs : P1_Stitch(j)
    \/ \E j \in Jobs : Upload(j)
    \/ \E j \in Jobs : Complete(j)
    \/ \E j \in Jobs : Cleanup(j)
    \/ \E j \in Jobs : Catch(j)
    \/ \E j \in Jobs : Finally(j)
    \/ \E j \in Jobs : UpstreamWrites(j, P1Manifests)

SpecP001 == Init /\ [][NextP001]_vars

----------------------------------------------------------------------------
(* processJob, trigger endpoint and safety poller of src/unnamed/part_002 *)

ErrNoScript == "Could not find script_data after 30s"
ErrNoVideo == "No video scenes were found to stitch."
ErrFFmpegFailed == "FFmpeg failed with code 1"
ErrUpload == "upload failed"

\* the slot of ex that holds the safety poller's callback
PollerKey == 0

\* sd = {} after a script_data string that JSON.parse rejects
EmptyObj == [kind |-> "obj", logo_video |-> "", scenes |-> <<>>, music |-> ""]

RECURSIVE P2_ScaleStmts(_)
\* videoPaths.forEach((p, idx) => filter += `[${idx}:v]scale=...[v${idx}];`)
P2_ScaleStmts(n) ==
    IF n = 0 THEN <<>>
    ELSE P2_ScaleStmts(n - 1) \o
         <<[op |-> "scale", n |-> 1, ins |-> <<InPad(n - 1, "v")>>,
            outs |-> <<[kind |-> "label", idx |-> n - 1, name |-> "v"]>>]>>

RECURSIVE P2_VideoNodes(_)
\* videoPaths.map((_, i) => `[v${i}]`).join('')
P2_VideoNodes(n) ==
    IF n = 0 THEN <<>>
    ELSE P2_VideoNodes(n - 1) \o <<[kind |-> "label", idx |-> n - 1, name |-> "v"]>>

\* args of the single encoder run: video-only concat, the music as the audio
P2_Args(videoPaths, mPath) ==
    LET n == Len(videoPaths)
        filter == P2_ScaleStmts(n) \o
                  <<[op |-> "concat", n |-> n, ins |-> P2_VideoNodes(n),
                     outs |-> <<Label("v_out")>>]>>
    IN  IF mPath # {}
        THEN [inputs |-> videoPaths \o <<CHOOSE p \in mPath : TRUE>>,
              filter |-> filter, maps |-> <<Label("v_out"), InPad(n, "a")>>]
        ELSE [inputs |-> videoPaths, filter |-> filter, maps |-> <<Label("v_out")>>]

\* app.post(['/render', '/process']): if (id) processJob(id)
P2_Trigger(id) == Enter(id, [Idle EXCEPT !.pc = "poll"])

\* the poller's select('id').eq('status', 'PENDING').limit(1)
Poller_Select ==
    /\ ex[PollerKey].pc = "idle"
    /\ IF \E j \in Jobs : status[j] = STATUS_PENDING
       THEN \E j \in Jobs :
              /\ status[j] = STATUS_PENDING
              /\ Set(PollerKey, [Idle EXCEPT !.pc = "selected", !.i = j])
       ELSE UNCHANGED ex
    /\ UNCHANGED <<store, activeJobs, entered, lastCall>>

\* if (data?.length) processJob(data[0].id)
Poller_Call ==
    /\ ex[PollerKey].pc = "selected"
    /\ processJobCall(ex[PollerKey].i, [Idle EXCEPT !.pc = "poll"],
                      [ex EXCEPT ![PollerKey] = Idle])

\* one pass of while (retries < 15): if (data && data.script_data) break
P2_Poll(j) ==
    /\ ex[j].pc = "poll"
    /\ \E readOk \in BOOLEAN :
         LET data == IF readOk THEN scriptData[j] ELSE NullData
             e == [ex[j] EXCEPT !.reads = @ + 1]
         IN  IF data.kind # "null"
             THEN Set(j, [e EXCEPT !.pc = "claim", !.sd = data])
             ELSE IF e.retries + 1 < MaxRetries
             THEN Set(j, [e EXCEPT !.retries = @ + 1])
             ELSE Set(j, [e EXCEPT !.retries = @ + 1, !.pc = "catch",
                                   !.err = ErrNoScript])
    /\ UNCHANGED <<store, activeJobs, entered, lastCall>>

\* the PROCESSING_RENDER write, then
\* if (typeof sd === 'string') { try { sd = JSON.parse(sd) } catch(e) { sd = {} } }
P2_Claim(j) ==
    /\ ex[j].pc = "claim"
    /\ status' = [status EXCEPT ![j] = STATUS_IN_PROGRESS]
    /\ progress' = [progress EXCEPT ![j] = 40]
    /\ Set(j, [ex[j] EXCEPT !.pc = "logo",
                            !.sd = IF @.kind = "bad" THEN EmptyObj ELSE @])
    /\ UNCHANGED <<scriptData, finalUrl, errorMessage, activeJobs, entered, lastCall>>

\* the music download, then
\* if (videoPaths.length === 0) throw new Error("No video scenes were found to stitch.")
P2_DownloadMusic(j) ==
    /\ ex[j].pc = "music"
    /\ \E ok \in BOOLEAN :
         LET d == downloadAsset(ex[j], ex[j].sd.music, ok, Path("music", 0, "mp3"))
             e == [d.e EXCEPT !.mPath = d.path, !.musicMiss = d.miss]
         IN  IF Len(e.rawPaths) = 0
             THEN Set(j, [e EXCEPT !.pc = "catch", !.err = ErrNoVideo])
             ELSE Set(j, [e EXCEPT !.pc = "ffmpeg"])
    /\ UNCHANGED <<store, activeJobs, entered, lastCall>>

\* spawn('ffmpeg', args) and its close event
P2_RunFFmpeg(j) ==
    /\ ex[j].pc = "ffmpeg"
    /\ \E code \in {0, 1} :
         LET e == [ex[j] EXCEPT !.encRuns = @ + 1,
                                !.finalArgs = P2_Args(ex[j].rawPaths, ex[j].mPath)]
         IN  IF code = 0
             THEN Set(j, [e EXCEPT !.files = @ \cup {Path("output", 0, "mp4")},
                                   !.pc = "upload"])
             ELSE Set(j, [e EXCEPT !.pc = "catch", !.err = ErrFFmpegFailed])
    /\ UNCHANGED <<store, activeJobs, entered, lastCall>>

\* storage.upload(...); if (uploadError) throw uploadError
P2_Upload(j) ==
    /\ ex[j].pc = "upload"
    /\ \E receipt \in {"ok", "error"} :
         IF receipt = "ok"
         THEN Set(j, [ex[j] EXCEPT !.upload = receipt, !.pc = "complete"])
         ELSE Set(j, [ex[j] EXCEPT !.upload = receipt, !.pc = "catch",
                                   !.err = ErrUpload])
    /\ UNCHANGED <<store, activeJobs, entered, lastCall>>

InitP002 ==
    /\ status = [j \in JobIds |-> STATUS_PENDING]
    /\ scriptData = [j \in JobIds |-> NullData]
    /\ finalUrl = [j \in JobIds |-> ""]
    /\ errorMessage = [j \in JobIds |-> ""]
    /\ progress = [j \in JobIds |-> 0]
    /\ activeJobs = {}
    /\ entered = [j \in JobIds |-> 0]
    /\ lastCall = <<NoId, "none">>
    /\ ex = [k \in {PollerKey} \cup JobIds |-> Idle]

NextP002 ==
    \/ \E id \in Jobs \cup {NoId} : P2_Trigger(id)
    \/ Poller_Select
    \/ Poller_Call
    \/ \E j \in Jobs : P2_Poll(j)
    \/ \E j \in Jobs : P2_Claim(j)
    \/ \E j \in Jobs : DownloadLogo(j)
    \/ \E j \in Jobs : DownloadScene(j)
    \/ \E j \in Jobs : P2_DownloadMusic(j)
    \/ \E j \in Jobs : P2_RunFFmpeg(j)
    \/ \E j \in Jobs : P2_Upload(j)
    \/ \E j \in Jobs : Complete(j)
    \/ \E j \in Jobs : Cleanup(j)
    \/ \E j \in Jobs : Catch(j)
    \/ \E j \in Jobs : Finally(j)
    \/ \E j \in Jobs : UpstreamWrite(j)

SpecP002 == InitP002 /\ [][NextP002]_vars

----------------------------------------------------------------------------
(* processJob of src/unnamed/part_005, lines 229-332 *)

ErrJobNotFound == "Job not found"
ErrUndefScenes == "Cannot read properties of undefined (reading 'scenes')"

\* parsed && parsed.scenes && parsed.scenes.length > 1
\*        && parsed.scenes.every(s => s.video_url)
P5_Ready(parsed) ==
    /\ Len(parsed.scenes) > 1
    /\ \A k \in 1..Len(parsed.scenes) : parsed.scenes[k] # ""

\* ffmpegArgs of the standardize loop: with an audio stream found the filter
\* gets the amix statement and no -map is pushed
P5_StandardizeArgs(raw, audioFound) ==
    IF audioFound
    THEN [inputs |-> <<raw, Anullsrc>>, filter |-> <<ScaleStmt, P1_AmixStmt>>,
          maps |-> <<>>]
    ELSE [inputs |-> <<raw, Anullsrc>>, filter |-> <<ScaleStmt>>,
          maps |-> <<Label("v"), InPad(1, "a")>>]

\* app.post(['/render', '/process']): if (id) processJob(id)
P5_Trigger(id) == Enter(id, [Idle EXCEPT !.pc = "init"])

\* the first read: if (!initialJob) throw new Error("Job not found")
P5_InitialRead(j) ==
    /\ ex[j].pc = "init"
    /\ \E readOk \in BOOLEAN :
         IF readOk
         THEN Set(j, [ex[j] EXCEPT !.pc = "claim"])
         ELSE Set(j, [ex[j] EXCEPT !.pc = "catch", !.err = ErrJobNotFound])
    /\ UNCHANGED <<store, activeJobs, entered, lastCall>>

\* one pass of while (retries < 100); after the last pass the loop is left with
\* job = initialJob, which has no parsed_data, and nothing is thrown
P5_Poll(j) ==
    /\ ex[j].pc = "poll"
    /\ \E readOk \in BOOLEAN :
         LET data == scriptData[j]
             e == [ex[j] EXCEPT !.reads = @ + 1]
         IN  IF ~readOk
             THEN Set(j, [e EXCEPT !.pc = "catch", !.err = ErrNullRow])
             ELSE IF data.kind = "bad"
             THEN Set(j, [e EXCEPT !.pc = "catch", !.err = ErrParse])
             ELSE IF data.kind = "obj" /\ P5_Ready(data)
             THEN Set(j, [e EXCEPT !.pc = "logo", !.sd = data])
             ELSE IF e.retries + 1 < MaxRetries
             THEN Set(j, [e EXCEPT !.retries = @ + 1])
             ELSE Set(j, [e EXCEPT !.retries = @ + 1, !.pc = "logo"])
    /\ UNCHANGED <<store, activeJobs, entered, lastCall>>

\* const sd = job.parsed_data; the logo download (no fetch for an undefined
\* sd); then sd.scenes of an undefined sd throws a TypeError
P5_DownloadLogo(j) ==
    /\ ex[j].pc = "logo"
    /\ IF ex[j].sd.kind = "null"
       THEN /\ Set(j, [ex[j] EXCEPT !.pc = "catch", !.err = ErrUndefScenes])
            /\ UNCHANGED <<store, activeJobs, entered, lastCall>>
       ELSE DlLogo(j, ex[j].sd.scenes)

\* one pass of the standardize loop: hasAudio(rawPaths[i]), then runFFmpeg(ffmpegArgs)
P5_Standardize(j) ==
    /\ ex[j].pc = "standardize"
    /\ \E audioFound \in BOOLEAN :
         StandardizeWith(j, P5_StandardizeArgs(ex[j].rawPaths[ex[j].i], audioFound))

NextP005 ==
    \/ \E id \in Jobs \cup {NoId} : P5_Trigger(id)
    \/ \E j \in Jobs : P5_InitialRead(j)
    \/ \E j \in Jobs : P1_Claim(j)
    \/ \E j \in Jobs : P5_Poll(j)
    \/ \E j \in Jobs : P5_DownloadLogo(j)
    \/ \E j \in Jobs : DownloadScene(j)
    \/ \E j \in Jobs : DownloadMusic(j)
    \/ \E j \in Jobs : P5_Standardize(j)
    \/ \E j \in Jobs : P1_Stitch(j)
    \/ \E j \in Jobs : Upload(j)
    \/ \E j \in Jobs : Complete(j)
    \/ \E j \in Jobs : Cleanup(j)
    \/ \E j \in Jobs : Catch(j)
    \/ \E j \in Jobs : Finally(j)
    \/ \E j \in Jobs : UpstreamWrite(j)

SpecP005 == Init /\ [][NextP005]_vars

----------------------------------------------------------------------------
(* The readiness loops of the three servers that wait for scenes, each up  *)
(* to the end of its loop.  A behaviour is of one server: its store has    *)
(* the one row whose id names the server.                                  *)

GateServer == 1
GateP001 == 2
GateP005 == 3

\* manifests that differ in their scenes list only
GateManifests ==
    [kind : {"obj"}, logo_video : {""}, scenes : P1SceneLists, music : {""}]

InitGates ==
    \E g \in {GateServer, GateP001, GateP005} :
        /\ status = [j \in {g} |-> STATUS_PENDING]
        /\ scriptData = [j \in {g} |-> NullData]
        /\ finalUrl = [j \in {g} |-> ""]
        /\ errorMessage = [j \in {g} |-> ""]
        /\ progress = [j \in {g} |-> 0]
        /\ activeJobs = {}
        /\ entered = [j \in {g} |-> 0]
        /\ lastCall = <<NoId, "none">>
        /\ ex = [j \in {g} |-> Idle]

NextGates ==
    \/ \E j \in Jobs \cap {GateServer} : Trigger(j)
    \/ \E j \in Jobs \cap {GateServer} : Poll(j)
    \/ \E j \in Jobs \cap {GateP001} : P1_Trigger(j)
    \/ \E j \in Jobs \cap {GateP001} : P1_Claim(j)
    \/ \E j \in Jobs \cap {GateP001} : P1_Poll(j)
    \/ \E j \in Jobs \cap {GateP005} : P5_Trigger(j)
    \/ \E j \in Jobs \cap {GateP005} : P5_InitialRead(j)
    \/ \E j \in Jobs \cap {GateP005} : P1_Claim(j)
    \/ \E j \in Jobs \cap {GateP005} : P5_Poll(j)
    \/ \E j \in Jobs : Catch(j)
    \/ \E j \in Jobs : Finally(j)
    \/ \E j \in Jobs : UpstreamWrites(j, GateManifests)

SpecGates == InitGates /\ [][NextGates]_vars

----------------------------------------------------------------------------
(* buildFFmpegCommand of src/ffmpeg-builder.js *)

\* scenes of a videoData, characters with an image and dialogue lines with
\* audio of a scene
MaxBScenes == 2
MaxChars == 2
MaxDialogue == 1

\* a scene, by what the builder looks at: whether its environment has an
\* image_url, how many of its characters have a transparent_image_url, whether
\* it has a description, how many of its dialogue lines have an audio_url
BScenes == [env : BOOLEAN, chars : 0..MaxChars, desc : BOOLEAN, dialogue : 0..MaxDialogue]

\* videoData: whether logo_video?.url and background_music?.url are set, and the scenes
VideoDatas ==
    [logo : BOOLEAN, music : BOOLEAN,
     scenes : UNION {[1..n -> BScenes] : n \in 0..MaxBScenes}]

\* [k:v] / [k:a] of the k-th input, and a label such as [bg0] or [scene0_char1_overlay]
BIn(k, t) == [kind |-> "in", idx |-> k, name |-> t, sub |-> 0]
BPad(name, sceneIdx, charIdx) ==
    [kind |-> "label", idx |-> sceneIdx, name |-> name, sub |-> charIdx]

\* one statement of filterComplex
BStmt(op, n, ins, outs) == [op |-> op, n |-> n, ins |-> ins, outs |-> outs]

\* the builder's locals: inputs, filterComplex, sceneSegments, inputIndex, the
\* indices the last pushes were given, and all indices given so far
BuilderStart ==
    [inputs |-> <<>>, filterComplex |-> <<>>, sceneSegments |-> <<>>,
     inputIndex |-> 0, got |-> <<>>, assigned |-> <<>>]

\* a push that hands out inputIndex without incrementing it
PushInputNoIncrement(b, what) ==
    [b EXCEPT !.inputs = Append(@, what), !.got = Append(@, b.inputIndex),
              !.assigned = Append(@, b.inputIndex)]

\* inputs.push(...); index = inputIndex++; assigned keeps every index handed
\* out, in the order of the pushes
PushInput(b, what) ==
    [b EXCEPT !.inputs = Append(@, what), !.got = Append(@, b.inputIndex),
              !.assigned = Append(@, b.inputIndex), !.inputIndex = @ + 1]

RECURSIVE PushInputs(_, _, _)
PushInputs(b, what, n) ==
    IF n = 0 THEN b ELSE PushInputs(PushInput(b, what), what, n - 1)

\* filterComplex.unshift(stmt): the statement goes to the front of the list
PushFilterFront(b, stmt) == [b EXCEPT !.filterComplex = <<stmt>> \o @]

PushFilter(b, stmt) == [b EXCEPT !.filterComplex = Append(@, stmt)]

\* Step 1: the global inputs; got = <<logoInputIndex, musicInputIndex>>, -1 for none
GlobalInputs(videoData) ==
    LET b1 == IF videoData.logo THEN PushInput(BuilderStart, "logo") ELSE BuilderStart
        logoInputIndex == IF videoData.logo THEN b1.got[1] ELSE -1
        b2 == IF videoData.music THEN PushInput([b1 EXCEPT !.got = <<>>], "music")
              ELSE b1
        musicInputIndex == IF videoData.music THEN b2.got[1] ELSE -1
    IN  [b2 EXCEPT !.got = <<logoInputIndex, musicInputIndex>>]

RECURSIVE OverlayChars(_, _, _, _, _)
\* sceneCharacterInputs.forEach: scale the character, overlay it on currentOverlay;
\* the result carries the last overlay in got
OverlayChars(b, sceneIdx, charInputs, charIdx, currentOverlay) ==
    IF charIdx >= Len(charInputs) THEN [b EXCEPT !.got = <<currentOverlay>>]
    ELSE LET scaled == BPad("char_scaled", sceneIdx, charIdx)
             overlayName == BPad("char_overlay", sceneIdx, charIdx)
             b1 == PushFilter(b, BStmt("scale", 1, <<BIn(charInputs[charIdx + 1], "v")>>,
                                       <<scaled>>))
             b2 == PushFilter(b1, BStmt("overlay", 2, <<currentOverlay, scaled>>,
                                        <<overlayName>>))
         IN  OverlayChars(b2, sceneIdx, charInputs, charIdx + 1, overlayName)

RECURSIVE DialoguePads(_, _)
\* dialogueAudioInputs.map(d => `[${d.inputIndex}:a]`)
DialoguePads(idxs, k) ==
    IF k > Len(idxs) THEN <<>> ELSE <<BIn(idxs[k], "a")>> \o DialoguePads(idxs, k + 1)

\* Step 2, one pass of scenes.forEach((scene, sceneIdx) => ...)
BuildScene(b, scene, sceneIdx) ==
    LET bg == BPad("bg", sceneIdx, 0)
        \* environment input, or a black background when it has no image
        e1 == IF scene.env THEN PushInput([b EXCEPT !.got = <<>>], "env")
              ELSE PushFilter(b, BStmt("color", 0, <<>>, <<bg>>))
        envInputIndex == IF scene.env THEN e1.got[1] ELSE -1
        c1 == PushInputs([e1 EXCEPT !.got = <<>>], "char", scene.chars)
        charInputs == c1.got
        d1 == PushInputs([c1 EXCEPT !.got = <<>>], "dialogue", scene.dialogue)
        dialogueInputs == d1.got
        f1 == IF envInputIndex >= 0
              THEN PushFilter(d1, BStmt("scale", 1, <<BIn(envInputIndex, "v")>>, <<bg>>))
              ELSE d1
        f2 == OverlayChars(f1, sceneIdx, charInputs, 0, bg)
        afterChars == f2.got[1]
        textOverlay == BPad("text_overlay", sceneIdx, 0)
        f3 == IF scene.desc
              THEN PushFilter(f2, BStmt("drawtext", 1, <<afterChars>>, <<textOverlay>>))
              ELSE f2
        currentOverlay == IF scene.desc THEN textOverlay ELSE afterChars
        video == BPad("scene_video", sceneIdx, 0)
        audio == BPad("scene_audio", sceneIdx, 0)
        f4 == PushFilter(f3, BStmt("trim", 1, <<currentOverlay>>, <<video>>))
        f5 == IF Len(dialogueInputs) > 0
              THEN PushFilter(f4, BStmt("concat_a", Len(dialogueInputs),
                                        DialoguePads(dialogueInputs, 1), <<audio>>))
              ELSE PushFilter(f4, BStmt("anullsrc", 0, <<>>, <<audio>>))
    IN  [f5 EXCEPT !.sceneSegments = Append(@, [video |-> video, audio |-> audio]),
                   !.got = b.got]

RECURSIVE BuildScenes(_, _, _)
BuildScenes(b, scenes, sceneIdx) ==
    IF sceneIdx >= Len(scenes) THEN b
    ELSE BuildScenes(BuildScene(b, scenes[sceneIdx + 1], sceneIdx), scenes, sceneIdx + 1)

RECURSIVE SegmentPads(_, _, _)
\* sceneSegments.map(s => `[${s.video}]`) and the same of s.audio
SegmentPads(segs, field, k) ==
    IF k > Len(segs) THEN <<>> ELSE <<segs[k][field]>> \o SegmentPads(segs, field, k + 1)

\* Steps 3-8: concatenation, credits, logo, music, and the -map options
buildFFmpegCommand(videoData) ==
    LET b == BuildScenes(GlobalInputs(videoData), videoData.scenes, 0)
        logoInputIndex == b.got[1]
        musicInputIndex == b.got[2]
        n == Len(b.sceneSegments)
        L(name) == BPad(name, 0, 0)
        body == b.filterComplex \o
            << BStmt("concat_v", n, SegmentPads(b.sceneSegments, "video", 1),
                     <<L("main_video_temp")>>),
               BStmt("concat_a", n, SegmentPads(b.sceneSegments, "audio", 1),
                     <<L("main_audio_temp")>>),
               BStmt("color", 0, <<>>, <<L("credits_bg")>>),
               BStmt("drawtext", 1, <<L("credits_bg")>>, <<L("credits_video")>>),
               BStmt("anullsrc", 0, <<>>, <<L("credits_audio")>>),
               BStmt("concat_v", 2, <<L("main_video_temp"), L("credits_video")>>,
                     <<L("video_with_credits")>>),
               BStmt("concat_a", 2, <<L("main_audio_temp"), L("credits_audio")>>,
                     <<L("audio_with_credits")>>) >>
        withLogo ==
            IF logoInputIndex >= 0
            THEN body \o
                 << BStmt("concat_v", 2, <<BIn(logoInputIndex, "v"), L("video_with_credits")>>,
                          <<L("video_final_pre")>>),
                    BStmt("concat_a", 2, <<BIn(logoInputIndex, "a"), L("audio_with_credits")>>,
                          <<L("audio_final_pre")>>) >>
            ELSE body
        finalVideo == IF logoInputIndex >= 0 THEN L("video_final_pre")
                      ELSE L("video_with_credits")
        preAudio == IF logoInputIndex >= 0 THEN L("audio_final_pre")
                    ELSE L("audio_with_credits")
        withMusic ==
            IF musicInputIndex >= 0
            THEN withLogo \o
                 << BStmt("amix", 2, <<preAudio, BIn(musicInputIndex, "a")>>,
                          <<L("audio_final")>>) >>
            ELSE withLogo
        finalAudio == IF musicInputIndex >= 0 THEN L("audio_final") ELSE preAudio
    IN  [inputs |-> b.inputs, filter |-> withMusic, maps |-> <<finalVideo, finalAudio>>]

----------------------------------------------------------------------------
(* The two compilers of the final encoder invocation, applied to every     *)
(* input of a bounded set: the stitch step of processJob (src/server.js)   *)
(* and buildFFmpegCommand (src/ffmpeg-builder.js)                          *)

\* rawPaths after the downloads: the intro clip when present, then the
\* materialized scene clips in order; processedPaths is its .ts files
RECURSIVE ScenePaths(_)
ScenePaths(n) ==
    IF n = 0 THEN <<>> ELSE ScenePaths(n - 1) \o <<Path("scene", n - 1, "mp4")>>

RawPathsOf(intro, nScenes) ==
    (IF intro THEN <<Path("logo", 0, "mp4")>> ELSE <<>>) \o ScenePaths(nScenes)

RECURSIVE ProcessedPathsOf(_)
ProcessedPathsOf(rawPaths) ==
    IF rawPaths = <<>> THEN <<>>
    ELSE <<TsPath(Head(rawPaths))>> \o ProcessedPathsOf(Tail(rawPaths))

CompileIdle ==
    [pc |-> "idle", videoData |-> [logo |-> FALSE, music |-> FALSE, scenes |-> <<>>],
     processedPaths |-> <<>>, mPath |-> {}, finalArgs |-> NoArgs]

InitCompile ==
    /\ status = <<>> /\ scriptData = <<>> /\ finalUrl = <<>>
    /\ errorMessage = <<>> /\ progress = <<>> /\ entered = <<>>
    /\ activeJobs = {}
    /\ lastCall = <<NoId, "none">>
    /\ \/ \E v \in VideoDatas :
            ex = [CompileIdle EXCEPT !.pc = "videoData", !.videoData = v]
       \/ \E intro \in BOOLEAN, nScenes \in 0..MaxScenes, music \in BOOLEAN :
            ex = [CompileIdle EXCEPT
                    !.pc = "paths",
                    !.processedPaths = ProcessedPathsOf(RawPathsOf(intro, nScenes)),
                    !.mPath = IF music THEN {Path("music", 0, "mp3")} ELSE {}]

\* const command = buildFFmpegCommand(videoData)
Compile_Build ==
    /\ ex.pc = "videoData"
    /\ ex' = [ex EXCEPT !.pc = "built", !.finalArgs = buildFFmpegCommand(ex.videoData)]
    /\ UNCHANGED <<store, activeJobs, entered, lastCall>>

\* STEP 2 of processJob: finalArgs built from processedPaths and mPath
Compile_Stitch ==
    /\ ex.pc = "paths"
    /\ ex' = [ex EXCEPT !.pc = "stitched",
                        !.finalArgs = StitchArgs(ex.processedPaths, ex.mPath)]
    /\ UNCHANGED <<store, activeJobs, entered, lastCall>>

NextCompile == Compile_Build \/ Compile_Stitch

SpecCompile == InitCompile /\ [][NextCompile]_vars

----------------------------------------------------------------------------
(* ensureFullUrl of src/unnamed/part_002, lines 23-38 *)

\* A string is a sequence of pieces: the scheme marker "https://", the bare
\* letters "http", a letter that is no hex digit, a slash, a space, the escape "%20" of a space,
\* and "%" not followed by two hex digits.
MaxUrlLen == 4
Pieces == {"https://", "http", "m", "/", " ", "%20", "%"}
Strings == UNION {[1..n -> Pieces] : n \in 0..MaxUrlLen}

\* the string "null"
NullWord == <<"null">>
Buckets == {"logo-videos", "scene-videos"}

\* what a call gives: null, a string, or a thrown URIError
RetNull == [kind |-> "null", str |-> <<>>]
RetStr(str) == [kind |-> "str", str |-> str]
RetThrows == [kind |-> "throws", str |-> <<>>]

RECURSIVE MapPieces(_, _, _)
MapPieces(str, from, to) ==
    IF str = <<>> THEN <<>>
    ELSE <<IF Head(str) = from THEN to ELSE Head(str)>> \o MapPieces(Tail(str), from, to)

\* decodeURI(str) throws a URIError for a malformed escape
decodeURIThrows(str) == \E k \in 1..Len(str) : str[k] = "%"

\* decodeURI(str): the escape of a space becomes a space, "%25" becomes "%"
decodeURI(str) == MapPieces(MapPieces(str, "%20", " "), "%25", "%")

\* encodeURI(str): a space becomes its escape and "%" becomes "%25"
encodeURI(str) == MapPieces(MapPieces(str, "%", "%25"), " ", "%20")

\* str.lastIndexOf('https://'), counted in pieces from 0; -1 for none
lastIndexOf(str, marker) ==
    LET at == {k \in 1..Len(str) : str[k] = marker}
    IN  IF at = {} THEN -1 ELSE (CHOOSE k \in at : \A m \in at : m <= k) - 1

RECURSIVE StripLeadingSlashes(_)
\* str.replace(/^\/+/, '')
StripLeadingSlashes(str) ==
    IF str # <<>> /\ Head(str) = "/" THEN StripLeadingSlashes(Tail(str)) ELSE str

\* `${SUPABASE_URL}/storage/v1/object/public/${bucket}/`
StorageRoot(bucket) == <<"https://", "m", "/", bucket, "/">>

ensureFullUrl(input, bucket) ==
    IF input = <<>> \/ input = NullWord THEN RetNull
    ELSE IF Head(input) \in {"http", "https://"}
    THEN LET str == IF lastIndexOf(input, "https://") > 0
                    THEN SubSeq(input, lastIndexOf(input, "https://") + 1, Len(input))
                    ELSE input
         IN  IF decodeURIThrows(str) THEN RetThrows
             ELSE RetStr(encodeURI(decodeURI(str)))
    ELSE RetStr(StorageRoot(bucket) \o StripLeadingSlashes(input))

UrlIdle == [pc |-> "idle", input |-> <<>>, bucket |-> "", first |-> RetNull,
            second |-> RetNull]

InitUrl ==
    /\ status = <<>> /\ scriptData = <<>> /\ finalUrl = <<>>
    /\ errorMessage = <<>> /\ progress = <<>> /\ entered = <<>>
    /\ activeJobs = {}
    /\ lastCall = <<NoId, "none">>
    /\ \E input \in Strings \cup {NullWord}, bucket \in Buckets :
         ex = [UrlIdle EXCEPT !.pc = "input", !.input = input, !.bucket = bucket]

\* const u = ensureFullUrl(x, b)
Url_Resolve ==
    /\ ex.pc = "input"
    /\ ex' = [ex EXCEPT !.pc = "resolved", !.first = ensureFullUrl(ex.input, ex.bucket)]
    /\ UNCHANGED <<store, activeJobs, entered, lastCall>>

\* ensureFullUrl(u, b), for a u that is a string
Url_ResolveAgain ==
    /\ ex.pc = "resolved" /\ ex.first.kind = "str"
    /\ ex' = [ex EXCEPT !.pc = "again", !.second = ensureFullUrl(ex.first.str, ex.bucket)]
    /\ UNCHANGED <<store, activeJobs, entered, lastCall>>

NextUrl == Url_Resolve \/ Url_ResolveAgain

SpecUrl == InitUrl /\ [][NextUrl]_vars

----------------------------------------------------------------------------
(* runFFmpeg of the polling server, src/server.js lines 74-107 *)

\* the largest script_data.total_duration, and the longest music file, in
\* seconds
MaxDuration == 4
MaxMusic == 10

LOGO_VIDEO_DURATION_SECONDS == 5

\* job.script_data?.total_duration || 20; 0 stands for every falsy value
\* (0, a missing field, a null script_data)
movieDuration(total_duration) == IF total_duration = 0 THEN 20 ELSE total_duration

\* color=c=black:s=1280x720:d=${movieDuration}
ColorSrc(d) == Path("color", d, "lavfi")

\* the audio chain with the fade starting where the trim ends
AudioChainFadeAtEnd(pad, totalDuration) ==
    [op |-> "atrim,afade", ins |-> <<pad>>, outs |-> <<Label("a_out")>>,
     duration |-> totalDuration, st |-> totalDuration, d |-> 1]

\* [k:a]atrim=duration=${T},afade=t=out:st=${T - 1}:d=1[a_out]
AudioChain(pad, totalDuration) ==
    [op |-> "atrim,afade", ins |-> <<pad>>, outs |-> <<Label("a_out")>>,
     duration |-> totalDuration, st |-> totalDuration - 1, d |-> 1]

\* [0:v][1:v]concat=n=2:v=1:a=0[v_full]
ConcatLogoStmt ==
    [op |-> "concat", n |-> 2, ins |-> <<InPad(0, "v"), InPad(1, "v")>>,
     outs |-> <<Label("v_full")>>]

\* args of runFFmpeg(job, logoPath, musicPath); logoPath and musicPath are
\* sets of at most one path ({} = null)
runFFmpegArgs(total_duration, logoPath, musicPath) ==
    IF logoPath # {}
    THEN LET totalDuration == movieDuration(total_duration) + LOGO_VIDEO_DURATION_SECONDS
         IN  [inputs |-> <<CHOOSE p \in logoPath : TRUE,
                           ColorSrc(movieDuration(total_duration)),
                           CHOOSE p \in musicPath : TRUE>>,
              filter |-> <<ConcatLogoStmt, AudioChain(InPad(2, "a"), totalDuration)>>,
              maps |-> <<Label("v_full"), Label("a_out")>>]
    ELSE [inputs |-> <<ColorSrc(movieDuration(total_duration)),
                       CHOOSE p \in musicPath : TRUE>>,
          filter |-> <<AudioChain(InPad(1, "a"), movieDuration(total_duration))>>,
          maps |-> <<InPad(0, "v"), Label("a_out")>>]

FFmpegIdle ==
    [pc |-> "idle", total_duration |-> 0, lPath |-> {}, mPath |-> {},
     musicLen |-> 0, args |-> NoArgs, err |-> ""]

\* a call of runFFmpeg: processNextJob passes a job, the logo path or null, and
\* a music path that is not null (line 153 throws otherwise)
InitFFmpeg ==
    /\ status = <<>> /\ scriptData = <<>> /\ finalUrl = <<>>
    /\ errorMessage = <<>> /\ progress = <<>> /\ entered = <<>>
    /\ activeJobs = {}
    /\ lastCall = <<NoId, "none">>
    /\ \E total_duration \in 0..MaxDuration, musicLen \in 1..MaxMusic,
          lPath \in {{}, {Path("logo", 0, "mp4")}} :
         ex = [FFmpegIdle EXCEPT !.pc = "call", !.total_duration = total_duration,
                                 !.lPath = lPath, !.mPath = {Path("music", 0, "mp3")},
                                 !.musicLen = musicLen]

\* lines 75-104: the arguments are built and the encoder is spawned
runFFmpeg_Spawn ==
    /\ ex.pc = "call"
    /\ ex' = [ex EXCEPT !.pc = "spawned",
                        !.args = runFFmpegArgs(ex.total_duration, ex.lPath, ex.mPath)]
    /\ UNCHANGED <<store, activeJobs, entered, lastCall>>

\* proc.on('close', (code) => code === 0 ? resolve(tempOutput) : reject(...))
runFFmpeg_Close ==
    /\ ex.pc = "spawned"
    /\ \E code \in {0, 1} :
         ex' = IF code = 0 THEN [ex EXCEPT !.pc = "resolved"]
               ELSE [ex EXCEPT !.pc = "rejected", !.err = ErrFFmpegExited]
    /\ UNCHANGED <<store, activeJobs, entered, lastCall>>

NextFFmpeg == runFFmpeg_Spawn \/ runFFmpeg_Close

SpecFFmpeg == InitFFmpeg /\ [][NextFFmpeg]_vars

----------------------------------------------------------------------------
(* processJob and its endpoint of src/unnamed/part_004, lines 148-241 *)

\* executions of processJob that can be in flight together
MaxRuns == 2
Runs == 1..MaxRuns

ErrNoProcessed == "No scenes were processed."
ErrNullSd == "Cannot read properties of null (reading 'scenes')"
\* reject(new Error(errStr)): the encoder's stderr
ErrStderr == "ffmpeg stderr"

\* this version reads only scenes[i].video_url of the manifest
P4Manifests == {m \in Manifests : m.logo_video = "" /\ m.music = ""}

\* path.join('/tmp', `in_${i}_${scriptId}.mp4`), `scene_${i}_${scriptId}.ts`
\* and `final_${scriptId}.mp4`: the name holds the loop index and the job id
P4Path(asset, i, scriptId, ext) ==
    [asset |-> asset, n |-> i, id |-> scriptId, ext |-> ext]

\* the locals of an execution; using is the set of local paths the execution
\* has written and not yet finished with
RunIdle ==
    [pc |-> "idle", id |-> NoId, sd |-> NullData, i |-> 0,
     processedPaths |-> <<>>, using |-> {}, err |-> ErrNone,
     reads |-> 0, fetches |-> 0, encRuns |-> 0, stdArgs |-> <<>>,
     upload |-> "none"]

\* the next manifest index from i on whose scene has a video_url, or 0:
\* if (!scene.video_url) continue
NextScene(scenes, i) ==
    LET with == {k \in i..Len(scenes) : scenes[k] # ""}
    IN  IF with = {} THEN 0 ELSE CHOOSE k \in with : \A m \in with : k <= m

\* where the loop goes from manifest index i (1-based) on
P4_Loop(e, i) ==
    LET k == NextScene(e.sd.scenes, i)
    IN  IF k = 0 THEN [e EXCEPT !.pc = "check", !.i = Len(e.sd.scenes) + 1]
        ELSE [e EXCEPT !.pc = "fetch", !.i = k]

\* app.post(['/render', '/process']): if (id) processJob(id); there is no
\* guard, every call with an id starts an execution
P4_Trigger(id) ==
    /\ IF id = NoId
       THEN /\ lastCall' = <<id, "returned">>
            /\ UNCHANGED ex
       ELSE /\ lastCall' = <<id, "entered">>
            /\ \E r \in Runs :
                 /\ ex[r].pc = "idle"
                 /\ Set(r, [RunIdle EXCEPT !.pc = "claim", !.id = id])
    /\ UNCHANGED <<store, activeJobs, entered>>

\* update({ status: 'PROCESSING_RENDER', progress_percentage: "50" })
P4_Claim(r) ==
    /\ ex[r].pc = "claim"
    /\ status' = [status EXCEPT ![ex[r].id] = STATUS_IN_PROGRESS]
    /\ progress' = [progress EXCEPT ![ex[r].id] = 50]
    /\ Set(r, [ex[r] EXCEPT !.pc = "read"])
    /\ UNCHANGED <<scriptData, finalUrl, errorMessage, activeJobs, entered, lastCall>>

\* select('*').single() (job is null when it fails), the parse of script_data,
\* and const scenes = sd.scenes || []
P4_Read(r) ==
    /\ ex[r].pc = "read"
    /\ \E readOk \in BOOLEAN :
         LET data == scriptData[ex[r].id]
             e == [ex[r] EXCEPT !.reads = @ + 1]
         IN  IF ~readOk
             THEN Set(r, [e EXCEPT !.pc = "catch", !.err = ErrNullRow])
             ELSE IF data.kind = "bad"
             THEN Set(r, [e EXCEPT !.pc = "catch", !.err = ErrParse])
             ELSE IF data.kind = "null"
             THEN Set(r, [e EXCEPT !.pc = "catch", !.err = ErrNullSd])
             ELSE Set(r, P4_Loop([e EXCEPT !.sd = data], 1))
    /\ UNCHANGED <<store, activeJobs, entered, lastCall>>

\* const res = await fetch(videoUrl); fs.writeFile(tempIn, ...): res.ok is not
\* looked at, a fetch that rejects throws
P4_Fetch(r) ==
    /\ ex[r].pc = "fetch"
    /\ \E res \in {"ok", "notok", "throws"} :
         LET e == [ex[r] EXCEPT !.fetches = @ + 1]
             tempIn == P4Path("in", e.i - 1, e.id, "mp4")
         IN  IF res = "throws"
             THEN Set(r, [e EXCEPT !.pc = "catch", !.err = ErrFetch])
             ELSE Set(r, [e EXCEPT !.using = @ \cup {tempIn}, !.pc = "encode"])
    /\ UNCHANGED <<store, activeJobs, entered, lastCall>>

\* hasAudio(tempIn) and the start of runFFmpeg([... '-y', outTs])
P4_EncodeStart(r) ==
    /\ ex[r].pc = "encode"
    /\ \E audioExists \in BOOLEAN :
         LET e == ex[r]
             tempIn == P4Path("in", e.i - 1, e.id, "mp4")
             outTs == P4Path("scene", e.i - 1, e.id, "ts")
         IN  Set(r, [e EXCEPT !.encRuns = @ + 1,
                              !.stdArgs = Append(@, P1_StandardizeArgs(tempIn, audioExists)),
                              !.using = @ \cup {outTs},
                              !.pc = "encoding"])
    /\ UNCHANGED <<store, activeJobs, entered, lastCall>>

\* the encoder closes: processedPaths.push(outTs) on code 0, else the throw
P4_EncodeEnd(r) ==
    /\ ex[r].pc = "encoding"
    /\ \E code \in {0, 1} :
         LET e == ex[r]
             tempIn == P4Path("in", e.i - 1, e.id, "mp4")
             outTs == P4Path("scene", e.i - 1, e.id, "ts")
         IN  IF code = 0
             THEN Set(r, P4_Loop([e EXCEPT !.processedPaths = Append(@, outTs),
                                           !.using = @ \ {tempIn}], e.i + 1))
             ELSE Set(r, [e EXCEPT !.pc = "catch", !.err = ErrStderr])
    /\ UNCHANGED <<store, activeJobs, entered, lastCall>>

\* if (processedPaths.length === 0) throw new Error("No scenes were processed.")
P4_Check(r) ==
    /\ ex[r].pc = "check"
    /\ IF Len(ex[r].processedPaths) = 0
       THEN Set(r, [ex[r] EXCEPT !.pc = "catch", !.err = ErrNoProcessed])
       ELSE Set(r, [ex[r] EXCEPT !.pc = "stitch"])
    /\ UNCHANGED <<store, activeJobs, entered, lastCall>>

\* the start of runFFmpeg(['-i', concatString, '-c', 'copy', ..., '-y', finalPath])
P4_StitchStart(r) ==
    /\ ex[r].pc = "stitch"
    /\ Set(r, [ex[r] EXCEPT !.encRuns = @ + 1,
                            !.using = @ \cup {P4Path("final", 0, ex[r].id, "mp4")},
                            !.pc = "stitching"])
    /\ UNCHANGED <<store, activeJobs, entered, lastCall>>

\* the final encoder run closes
P4_StitchEnd(r) ==
    /\ ex[r].pc = "stitching"
    /\ \E code \in {0, 1} :
         IF code = 0
         THEN Set(r, [ex[r] EXCEPT !.pc = "upload"])
         ELSE Set(r, [ex[r] EXCEPT !.pc = "catch", !.err = ErrStderr])
    /\ UNCHANGED <<store, activeJobs, entered, lastCall>>

\* fs.readFile(finalPath) and storage.upload(...): the receipt is not looked at
P4_Upload(r) ==
    /\ ex[r].pc = "upload"
    /\ \E receipt \in {"ok", "error"} :
         Set(r, [ex[r] EXCEPT !.upload = receipt, !.pc = "complete"])
    /\ UNCHANGED <<store, activeJobs, entered, lastCall>>

\* update({ status: 'COMPLETED', final_video_url, progress_percentage: "100" })
P4_Complete(r) ==
    /\ ex[r].pc = "complete"
    /\ status' = [status EXCEPT ![ex[r].id] = COMPLETED]
    /\ finalUrl' = [finalUrl EXCEPT ![ex[r].id] = "public"]
    /\ progress' = [progress EXCEPT ![ex[r].id] = 100]
    /\ Set(r, [ex[r] EXCEPT !.pc = "cleanup"])
    /\ UNCHANGED <<scriptData, errorMessage, activeJobs, entered, lastCall>>

\* the fs.unlink calls for processedPaths and finalPath; the execution ends
P4_Cleanup(r) ==
    /\ ex[r].pc = "cleanup"
    /\ Set(r, RunIdle)
    /\ UNCHANGED <<store, activeJobs, entered, lastCall>>

\* catch (e): update({ status: 'FAILED', error_message: e.message }); the
\* execution ends
P4_Catch(r) ==
    /\ ex[r].pc = "catch"
    /\ status' = [status EXCEPT ![ex[r].id] = STATUS_FAILED]
    /\ errorMessage' = [errorMessage EXCEPT ![ex[r].id] = ex[r].err]
    /\ Set(r, RunIdle)
    /\ UNCHANGED <<scriptData, finalUrl, progress, activeJobs, entered, lastCall>>

InitP004 ==
    /\ status = [j \in JobIds |-> STATUS_PENDING]
    /\ scriptData \in [JobIds -> P4Manifests \cup {NullData, BadData}]
    /\ finalUrl = [j \in JobIds |-> ""]
    /\ errorMessage = [j \in JobIds |-> ""]
    /\ progress = [j \in JobIds |-> 0]
    /\ activeJobs = {}
    /\ entered = [j \in JobIds |-> 0]
    /\ lastCall = <<NoId, "none">>
    /\ ex = [r \in Runs |-> RunIdle]

NextP004 ==
    \/ \E id \in Jobs \cup {NoId} : P4_Trigger(id)
    \/ \E r \in Runs : P4_Claim(r)
    \/ \E r \in Runs : P4_Read(r)
    \/ \E r \in Runs : P4_Fetch(r)
    \/ \E r \in Runs : P4_EncodeStart(r)
    \/ \E r \in Runs : P4_EncodeEnd(r)
    \/ \E r \in Runs : P4_Check(r)
    \/ \E r \in Runs : P4_StitchStart(r)
    \/ \E r \in Runs : P4_StitchEnd(r)
    \/ \E r \in Runs : P4_Upload(r)
    \/ \E r \in Runs : P4_Complete(r)
    \/ \E r \in Runs : P4_Cleanup(r)
    \/ \E r \in Runs : P4_Catch(r)

SpecP004 == InitP004 /\ [][NextP004]_vars

----------------------------------------------------------------------------
(* Claims about processJob of src/server.js (lines 396-502) *)

\* C1: once an execution has added a job id to activeJobs, it reaches its end
\* with COMPLETED or FAILED stored as the job's status, whatever the readiness
\* polls, fetches, encoder runs and upload return.
C1_ClaimedJobEndsTerminal ==
    \A j \in JobIds :
        (j \in activeJobs) ~> (ex[j].pc = "finally" /\ status[j] \in Terminal)

C1_Witness ==
    \E j \in Jobs :
        /\ ex[j].pc = "finally" /\ ex[j].err = ErrFFmpeg
        /\ status[j] = STATUS_FAILED /\ j \in activeJobs

\* C2: a stored status of COMPLETED or FAILED never changes again.
C2_TerminalNeverChanges ==
    [][\A j \in JobIds : status[j] \in Terminal => status'[j] = status[j]]_vars

\* C6: an execution that ends with the job marked FAILED has deleted every
\* local file it created.
C6_FailedLeavesNoFiles ==
    \A j \in Jobs :
        (ex[j].pc = "finally" /\ ex[j].wrote = STATUS_FAILED) => ex[j].files = {}

\* C7: an execution in which the fetch of a scene clip failed never writes
\* COMPLETED.
C7_SceneMissNeverCompletes ==
    \A j \in Jobs : ex[j].sceneMiss => ex[j].wrote # COMPLETED

HasOp(args, op) == \E k \in 1..Len(args.filter) : args.filter[k].op = op

\* C8: when the music fetch failed, the execution fails only if an encoder run
\* fails; otherwise it ends COMPLETED, and its final filter graph has no amix
\* statement and maps the concatenated audio pad [a].
C8_MusicMissStillCompletes ==
    \A j \in Jobs :
        ex[j].musicMiss =>
            /\ ex[j].err \in {ErrNone, ErrFFmpeg}
            /\ (ex[j].pc = "finally" /\ ex[j].err = ErrNone) =>
                   (ex[j].wrote = COMPLETED /\ status[j] = COMPLETED)
            /\ ex[j].finalArgs # NoArgs =>
                   /\ ~HasOp(ex[j].finalArgs, "amix")
                   /\ HasOp(ex[j].finalArgs, "concat")
                   /\ ex[j].finalArgs.maps = <<Label("v"), Label("a")>>

C8_Witness ==
    \E j \in Jobs :
        /\ ex[j].musicMiss /\ ex[j].pc = "finally"
        /\ status[j] = COMPLETED /\ ex[j].wrote = COMPLETED
        /\ ex[j].finalArgs # NoArgs

\* C10: with attempt budget N = MaxRetries, an execution whose polls never see
\* a ready manifest reads the job record exactly N times and then writes
\* FAILED, without any fetch, encoder run or upload.
C10_TimeoutAfterBudget ==
    \A j \in Jobs :
        LET e == ex[j]
        IN  /\ e.pc = "poll" => (e.reads = e.retries /\ e.retries < MaxRetries)
            /\ e.reads <= MaxRetries
            /\ (e.pc \in {"catch", "finally"} /\ e.sd.kind = "null" /\ e.err # ErrParse)
                   => e.err = ErrNoScenes
            /\ e.err = ErrNoScenes =>
                   /\ e.reads = MaxRetries
                   /\ e.fetches = 0 /\ e.encRuns = 0 /\ e.upload = "none"
                   /\ e.files = {} /\ e.finalArgs = NoArgs
                   /\ e.pc \in {"catch", "finally"}
                   /\ e.pc = "finally" =>
                          (status[j] = STATUS_FAILED /\ errorMessage[j] = ErrNoScenes)

C10_Witness ==
    \E j \in Jobs :
        /\ ex[j].pc = "finally" /\ ex[j].err = ErrNoScenes
        /\ ex[j].reads = MaxRetries /\ status[j] = STATUS_FAILED

\* the ids of the processJob executions in flight: past the guard, not yet
\* through the finally block
InFlight == {j \in Jobs : ex[j].pc # "idle"}

\* C35: activeJobs holds exactly the ids of the executions in flight, every
\* exit (success, thrown error, readiness timeout) removes the id, and a call
\* for an id returns at the guard only while an execution of it is in flight,
\* so a trigger after the exit is processed again.
C35_ActiveJobsAreInFlight ==
    /\ [](activeJobs = InFlight)
    /\ [][\A j \in Jobs :
            /\ (ex[j].pc = "finally" /\ ex'[j].pc = "idle") => j \notin activeJobs'
            /\ (lastCall' # lastCall /\ lastCall' = <<j, "returned">>) => j \in InFlight
            /\ (ex[j].pc = "idle" /\ Trigger(j))
                   => (ex'[j].pc = "poll" /\ j \in activeJobs')]_vars

\* a second execution of an id is in flight after the first one ended with a
\* terminal write
C35_Witness ==
    \E j \in Jobs :
        /\ status[j] \in Terminal /\ ex[j].wrote = "none"
        /\ ex[j].pc = "poll" /\ j \in activeJobs /\ lastCall = <<j, "entered">>

\* C36: an execution that reaches its exit has written a terminal status, and
\* after its COMPLETED write it writes no status again (no FAILED after
\* COMPLETED), also when the temporary files could not be deleted.
C36_NoWriteAfterCompleted ==
    /\ [](\A j \in Jobs : ex[j].pc = "finally" => ex[j].wrote \in Terminal)
    /\ [][\A j \in Jobs :
            ex[j].wrote = COMPLETED =>
                /\ status'[j] = status[j] /\ status[j] = COMPLETED
                /\ ex'[j].wrote # STATUS_FAILED]_vars

\* an execution wrote COMPLETED, could not delete its files and is at its exit
C36_Witness ==
    \E j \in Jobs :
        /\ ex[j].pc = "finally" /\ ex[j].wrote = COMPLETED /\ ex[j].files # {}
        /\ status[j] = COMPLETED

----------------------------------------------------------------------------
(* Claims about processJob of src/unnamed/part_001 and part_002 *)

\* C9: in part_001, an execution whose upload reported an error never writes
\* COMPLETED.
C9_UploadErrorNeverCompletes ==
    \A j \in Jobs : ex[j].upload = "error" => ex[j].wrote # COMPLETED

\* C3: never are two processJob executions past the activeJobs guard for the
\* same id, whether the calls come from the endpoint or the safety poller; a
\* call for an id in flight returns and leaves the Job Store, activeJobs and
\* every execution as they were.
C3_OneExecutionPerId ==
    [][ /\ \A j \in Jobs : entered'[j] <= 1
        /\ \A j \in Jobs :
             (lastCall' = <<j, "returned">> /\ lastCall' # lastCall) =>
                 /\ j \in activeJobs
                 /\ store' = store
                 /\ activeJobs' = activeJobs /\ entered' = entered
                 /\ \A k \in Jobs : ex'[k] = ex[k] ]_vars

\* the poller's call for a PENDING job in flight was turned away by the guard
C3_Witness ==
    \E j \in Jobs :
        /\ lastCall = <<j, "returned">> /\ j \in activeJobs /\ entered[j] = 1
        /\ status[j] = STATUS_PENDING /\ ex[j].pc = "poll" /\ ex[j].reads > 0
        /\ ex[PollerKey].pc = "idle"

\* C25: in part_002 the PROCESSING_RENDER write for a job happens before the
\* first readiness read of that job: once an execution has read the record, the
\* stored status is no longer PENDING, and the poller's select on PENDING does
\* not return a job that waits for its manifest.
C25_ClaimedBeforeFirstRead ==
    \A j \in Jobs :
        (ex[j].pc # "idle" /\ ex[j].reads > 0) => status[j] # STATUS_PENDING

----------------------------------------------------------------------------
(* Claims about processJob of src/unnamed/part_005 (lines 229-332) *)

\* the messages the readiness loops throw for an exhausted attempt budget
TimeoutMessages == {ErrNoScenes, ErrTimeout, ErrNoScript}

\* C11: in part_005, an execution whose readiness loop used up its attempt
\* budget and that wrote FAILED stored an error_message that names the
\* readiness timeout.
C11_TimeoutIsReported ==
    \A j \in Jobs :
        (ex[j].retries = MaxRetries /\ ex[j].wrote = STATUS_FAILED) =>
            errorMessage[j] \in TimeoutMessages

\* C26: in part_005, the first poll that reads a manifest with at least one
\* scene, every scene with a video_url, leaves the loop with that manifest; a
\* manifest with exactly one resolved scene is ready.
C26_FirstReadyObservationReturns ==
    [][\A j \in Jobs :
          (/\ ex[j].pc = "poll" /\ ex'[j].reads = ex[j].reads + 1
           /\ ex'[j].pc # "catch"
           /\ scriptData[j].kind = "obj"
           /\ Len(scriptData[j].scenes) >= 1
           /\ \A k \in 1..Len(scriptData[j].scenes) : scriptData[j].scenes[k] # "")
              => (ex'[j].pc = "logo" /\ ex'[j].sd = scriptData[j])]_vars

----------------------------------------------------------------------------
(* Claims about the readiness loops *)

\* C12: no readiness loop (server.js, part_001, part_005) breaks with a job
\* on a record whose scenes list is empty or missing: the manifest an
\* execution took from its loop always has at least one scene.
C12_EmptyScenesNeverReady ==
    \A j \in Jobs :
        /\ ex[j].sd # NullData => (ex[j].sd.kind = "obj" /\ Len(ex[j].sd.scenes) > 0)
        /\ (ex[j].pc = "claim" /\ j = GateServer) => ex[j].sd # NullData
        /\ (ex[j].pc = "logo" /\ j = GateP001) => ex[j].sd # NullData

\* part_005's loop polled a record that was not ready and a later poll broke
\* out with a manifest
C12_Witness ==
    \E j \in Jobs :
        /\ j = GateP005 /\ ex[j].pc = "logo" /\ ex[j].reads > 1
        /\ ex[j].sd # NullData

\* C13: the loop of server.js reports a manifest ready only if every scene
\* of it has a non-empty video_url.
C13_ReadyOnlyWithAllUrls ==
    \A j \in Jobs :
        ex[j].sd # NullData =>
            \A k \in 1..Len(ex[j].sd.scenes) : ex[j].sd.scenes[k] # ""

----------------------------------------------------------------------------
(* Claims about the compiled encoder invocation *)

\* statements whose output is an audio pad
AudioOps == {"amix", "anullsrc", "concat_a", "volume=1.0", "volume=0.3"}

\* "v" or "a" for the k-th output of a statement: concat (v=1:a=1) gives a
\* video and an audio output
OutType(stmt, k) ==
    IF stmt.op = "concat" THEN (IF k = 1 THEN "v" ELSE "a")
    ELSE IF stmt.op \in AudioOps THEN "a" ELSE "v"

\* the stream types a pad can carry in args: its own for an input pad, those
\* of the statement outputs that bear the label otherwise
PadTypes(args, pad) ==
    IF pad.kind = "in" THEN {pad.name}
    ELSE {OutType(args.filter[k], o) :
            <<k, o>> \in {x \in (1..Len(args.filter)) \X (1..2) :
                            /\ x[2] <= Len(args.filter[x[1]].outs)
                            /\ args.filter[x[1]].outs[x[2]] = pad}}

OneVideoOneAudio(args) ==
    /\ Len(args.maps) = 2
    /\ PadTypes(args, args.maps[1]) = {"v"}
    /\ PadTypes(args, args.maps[2]) = {"a"}

\* C14: the final encoder invocation maps exactly one video pad and exactly
\* one audio pad, with and without intro and music: in the stitch step of
\* processJob and in buildFFmpegCommand.
C14_OneVideoOneAudioMap ==
    ex.pc \in {"built", "stitched"} => OneVideoOneAudio(ex.finalArgs)

\* both compilers ran on inputs without intro and without music, and with both
C14_Witness ==
    \/ /\ ex.pc = "stitched" /\ ex.mPath = {} /\ Len(ex.processedPaths) = 1
       /\ ex.processedPaths[1].asset = "scene"
    \/ /\ ex.pc = "built" /\ ex.videoData.logo /\ ex.videoData.music
       /\ Len(ex.videoData.scenes) = MaxBScenes

\* the labels that the statements before the m-th one produce
ProducedBefore(filter, m) ==
    UNION {{filter[q].outs[k] : k \in 1..Len(filter[q].outs)} : q \in 1..(m - 1)}

\* C29: in the statement list of buildFFmpegCommand every pad label that a
\* statement consumes was produced by an earlier statement or is a raw input
\* pad, and no pad label is produced by two statements.
C29_PadsProducedOnceBeforeUse ==
    ex.pc = "built" =>
        LET f == ex.finalArgs.filter
        IN  /\ \A m \in 1..Len(f) : \A k \in 1..Len(f[m].ins) :
                   IF f[m].ins[k].kind = "in"
                   THEN f[m].ins[k].idx \in 0..(Len(ex.finalArgs.inputs) - 1)
                   ELSE f[m].ins[k] \in ProducedBefore(f, m)
            /\ \A m \in 1..Len(f) : \A k \in 1..Len(f[m].outs) :
                   /\ f[m].outs[k].kind = "label"
                   /\ f[m].outs[k] \notin ProducedBefore(f, m)
            /\ \A k \in 1..Len(ex.finalArgs.maps) :
                   ex.finalArgs.maps[k] \in ProducedBefore(f, Len(f) + 1)

\* the builder ran on two scenes, one with an environment image and one
\* without, each with characters, a description and dialogue audio
C29_Witness ==
    /\ ex.pc = "built" /\ Len(ex.videoData.scenes) = MaxBScenes
    /\ ex.videoData.scenes[1].env /\ ~ex.videoData.scenes[MaxBScenes].env
    /\ \A k \in 1..MaxBScenes :
           /\ ex.videoData.scenes[k].chars = MaxChars
           /\ ex.videoData.scenes[k].desc
           /\ ex.videoData.scenes[k].dialogue = MaxDialogue

\* C30: in buildFFmpegCommand every video operand of a concat statement is the
\* output of a statement that fixes the output geometry; a raw input video pad
\* is never an operand of a concat statement.
C30_ConcatOperandsNormalized ==
    ex.pc = "built" =>
        LET f == ex.finalArgs.filter
        IN  \A m \in 1..Len(f) :
                f[m].op = "concat_v" =>
                    \A k \in 1..Len(f[m].ins) : f[m].ins[k].kind = "label"

\* C18: final_video_url is set only while the status is COMPLETED: a job whose
\* status is PROCESSING_RENDER or FAILED has no final_video_url.
C18_FinalUrlOnlyWhenCompleted ==
    \A j \in Jobs :
        status[j] \in {STATUS_IN_PROGRESS, STATUS_FAILED} => finalUrl[j] = ""

\* C24: the upload and the COMPLETED write happen only after every encoder
\* invocation of the execution exited with code 0; a non-zero exit ends the job
\* FAILED with no upload; each invocation is attempted exactly once.
C24_UploadOnlyAfterEncoderSuccess ==
    \A j \in Jobs :
        LET e == ex[j]
            published == e.pc \in {"upload", "complete", "cleanup"}
                             \/ e.upload # "none" \/ e.wrote = COMPLETED
        IN  /\ e.encRuns <= Len(e.rawPaths) + 1
            /\ e.encRuns <= Len(e.processedPaths) + 1
            /\ published => /\ e.err = ErrNone
                            /\ Len(e.processedPaths) = Len(e.rawPaths)
                            /\ e.encRuns = Len(e.rawPaths) + 1
            /\ e.err = ErrFFmpeg =>
                   /\ e.pc \in {"catch", "finally"}
                   /\ e.upload = "none" /\ e.wrote # COMPLETED
                   /\ e.pc = "finally" => status[j] = STATUS_FAILED

\* an execution wrote COMPLETED after an intro clip, two scene clips and the
\* stitch each went through the encoder once
C24_Witness ==
    \E j \in Jobs :
        /\ ex[j].wrote = COMPLETED /\ ex[j].encRuns = MaxScenes + 2
        /\ status[j] = COMPLETED

\* the clips a concat statement lists, in its order: the inputs that its
\* video operands name
ConcatSegments(args) ==
    LET c == args.filter[1]
    IN  [k \in 1..(Len(c.ins) \div 2) |-> args.inputs[c.ins[2 * k - 1].idx + 1]]

\* C27: the concat statement of the stitch step lists the materialized intro
\* clip first (when present), then the materialized scene clips in manifest
\* order, and its n equals the number of listed segments.
C27_ConcatOrderAndCount ==
    \A j \in Jobs :
        ex[j].finalArgs # NoArgs =>
            LET a == ex[j].finalArgs
                c == a.filter[1]
                raw == ex[j].rawPaths
                segs == ConcatSegments(a)
            IN  /\ c.op = "concat"
                /\ Len(c.ins) = 2 * c.n
                /\ \A k \in 1..c.n :
                       /\ c.ins[2 * k - 1].kind = "in" /\ c.ins[2 * k - 1].name = "v"
                       /\ c.ins[2 * k] = InPad(c.ins[2 * k - 1].idx, "a")
                       /\ c.ins[2 * k - 1].idx < Len(a.inputs)
                /\ c.n = Len(raw)
                /\ \A k \in 1..c.n : segs[k] = TsPath(raw[k])
                /\ \A k \in 1..c.n : segs[k].asset = "logo" => k = 1
                /\ \A k, m \in 1..c.n :
                       (k < m /\ segs[k].asset = "scene") =>
                           (segs[m].asset = "scene" /\ segs[k].n < segs[m].n)

\* the stitch arguments were built for an intro clip and two scene clips
C27_Witness ==
    \E j \in Jobs :
        /\ ex[j].finalArgs # NoArgs
        /\ ex[j].finalArgs.filter[1].n = MaxScenes + 1
        /\ ex[j].rawPaths[1].asset = "logo"

\* the raw input pads that the statements of an argument list consume
InputPadsOf(args) ==
    {p \in UNION {{st.ins[k] : k \in 1..Len(st.ins)} :
                     st \in {args.filter[m] : m \in 1..Len(args.filter)}} :
        p.kind = "in"}

\* C28: in the stitch step every pad [i:v] and [i:a] names the i-th input of
\* the argument list, the music pad's index is the number of video inputs
\* before the music input, and no index names an input that is not there.
C28_PadIndicesNameInputs ==
    \A j \in Jobs :
        ex[j].finalArgs # NoArgs =>
            LET a == ex[j].finalArgs
                videoInputs == {k \in 1..Len(a.inputs) : a.inputs[k].ext = "mp4.ts"}
            IN  /\ \A p \in InputPadsOf(a) : p.idx + 1 \in 1..Len(a.inputs)
                /\ \A p \in InputPadsOf(a) :
                       p.name = "v" => p.idx + 1 \in videoInputs
                /\ \A m \in 1..Len(a.filter) :
                       a.filter[m].op = "amix" =>
                           LET mp == a.filter[m].ins[2]
                           IN  /\ mp.kind = "in" /\ mp.name = "a"
                               /\ a.inputs[mp.idx + 1] \in ex[j].mPath
                               /\ mp.idx = Cardinality(videoInputs)
                /\ \A k \in videoInputs : InPad(k - 1, "v") \in InputPadsOf(a)

\* the music is mixed into a stitch that has one scene clip and no intro clip
C28_Witness ==
    \E j \in Jobs :
        /\ ex[j].finalArgs # NoArgs /\ ex[j].mPath # {}
        /\ Len(ex[j].rawPaths) = 1 /\ ex[j].rawPaths[1].asset = "scene"
        /\ Len(ex[j].sd.scenes) = MaxScenes

\* the builder's locals after Step 2: the inputs, the index given at each
\* push, and got = <<logoInputIndex, musicInputIndex>>
BuilderOf(videoData) == BuildScenes(GlobalInputs(videoData), videoData.scenes, 0)

\* C37: in buildFFmpegCommand the k-th pushed input was given index k
\* (counting from 0), every pad [k:v] or [k:a] has k smaller than the number
\* of inputs, and logoInputIndex and musicInputIndex differ (and name the logo
\* and the music input) when both are assigned.
C37_InputIndicesMatchPositions ==
    ex.pc = "built" =>
        LET b == BuilderOf(ex.videoData)
            a == ex.finalArgs
        IN  /\ a.inputs = b.inputs
            /\ Len(b.assigned) = Len(b.inputs)
            /\ \A k \in 1..Len(b.inputs) : b.assigned[k] = k - 1
            /\ \A p \in InputPadsOf(a) : p.idx >= 0 /\ p.idx < Len(a.inputs)
            /\ b.got[1] >= 0 => a.inputs[b.got[1] + 1] = "logo"
            /\ b.got[2] >= 0 => a.inputs[b.got[2] + 1] = "music"
            /\ (b.got[1] >= 0 /\ b.got[2] >= 0) => b.got[1] # b.got[2]

\* the builder ran with a logo, music and the most scenes, each with an
\* environment image, characters and dialogue audio
C37_Witness ==
    /\ ex.pc = "built" /\ ex.videoData.logo /\ ex.videoData.music
    /\ Len(ex.videoData.scenes) = MaxBScenes
    /\ \A k \in 1..MaxBScenes :
           /\ ex.videoData.scenes[k].env
           /\ ex.videoData.scenes[k].chars = MaxChars
           /\ ex.videoData.scenes[k].dialogue = MaxDialogue
    /\ Len(ex.finalArgs.inputs) = 2 + MaxBScenes * (1 + MaxChars + MaxDialogue)
    /\ Cardinality(InputPadsOf(ex.finalArgs)) > 2

----------------------------------------------------------------------------
(* Claims about updateJobStatus of src/server.js (lines 63-72) *)

\* C17: every FAILED write of the polling server stores an error_message that
\* is non-empty and at most 500 characters long, whatever the message of the
\* error that was caught.
C17_FailedMessageNonEmptyBounded ==
    \A j \in Jobs :
        status[j] = STATUS_FAILED =>
            /\ errorMessage[j].kind = "str"
            /\ errorMessage[j].len > 0
            /\ errorMessage[j].len <= MaxErrorLength

\* C19: under any interleaving of processNextJob executions, error_message is
\* non-null only while the status is FAILED.
C19_ErrorMessageOnlyWhenFailed ==
    \A j \in Jobs : errorMessage[j] # NullMessage => status[j] = STATUS_FAILED

\* a job is FAILED with a message while another execution, which claimed the
\* same job, is about to write to it again
C19_Witness ==
    \E j \in Jobs, t \in Ticks :
        /\ status[j] = STATUS_FAILED /\ errorMessage[j] # NullMessage
        /\ ex[t].job = j /\ ex[t].pc \in {"progress", "complete"}

\* C20: while a job's stored status is PROCESSING_RENDER, its stored
\* progress_percentage never decreases from one write to the next.
C20_ProgressNeverDecreases ==
    [][\A j \in Jobs :
          (status[j] = STATUS_IN_PROGRESS /\ status'[j] = STATUS_IN_PROGRESS)
              => progress'[j] >= progress[j]]_vars

----------------------------------------------------------------------------
(* Claims about ensureFullUrl of src/unnamed/part_002 *)

\* C15: when ensureFullUrl(x, b) returns a URL u, ensureFullUrl(u, b)
\* returns u unchanged.
C15_ResolveIdempotent ==
    ex.pc = "again" => ex.second = ex.first

\* an absolute URL in which nothing is left to escape
WellFormedUrl(str) ==
    /\ Len(str) >= 2 /\ str[1] = "https://" /\ str[2] = "m"
    /\ \A k \in 1..Len(str) : str[k] \notin {" ", "%"}
    /\ \A k \in 2..Len(str) : str[k] # "https://"

\* C16: for every input string ensureFullUrl returns null or a well-formed,
\* fully percent-encoded absolute URL, and never throws.
C16_NullOrWellFormedUrl ==
    ex.pc = "resolved" =>
        \/ ex.first.kind = "null"
        \/ ex.first.kind = "str" /\ WellFormedUrl(ex.first.str)

\* the non-zero offsets (in pieces, from 1) at which the marker occurs again
FurtherMarkers(str) == {k \in 2..Len(str) : str[k] = "https://"}

\* the suffix of str that starts at the second occurrence of the marker
FromSecondMarker(str) ==
    SubSeq(str, CHOOSE k \in FurtherMarkers(str) : \A m \in FurtherMarkers(str) : k <= m,
           Len(str))

\* C32: for a reference that begins with the scheme marker and contains it
\* again, the returned URL is built from the suffix that starts at the second
\* occurrence of the marker, however many times the marker occurs.
C32_CutAtSecondMarker ==
    (/\ ex.pc = "resolved" /\ ex.input # <<>> /\ Head(ex.input) = "https://"
     /\ FurtherMarkers(ex.input) # {} /\ ex.first.kind = "str")
        => ex.first.str = encodeURI(decodeURI(FromSecondMarker(ex.input)))

\* C33: for a reference that is not an absolute URL the result is the
\* percent-encoded storage-root/bucket/reference without the reference's
\* leading separators, and it holds no raw space.
C33_BareNameEncoded ==
    (/\ ex.pc = "resolved" /\ ex.input # <<>> /\ ex.input # NullWord
     /\ Head(ex.input) \notin {"http", "https://"})
        => /\ ex.first = RetStr(encodeURI(StorageRoot(ex.bucket)
                                            \o StripLeadingSlashes(ex.input)))
           /\ \A k \in 1..Len(ex.first.str) : ex.first.str[k] # " "

----------------------------------------------------------------------------
(* Claims about processNextJob of src/server.js (lines 109-184) *)

\* a processNextJob execution between its claim write and its terminal write
Processing(t) ==
    ex[t].pc \in {"resolve", "logo", "music", "progress", "ffmpeg", "upload",
                  "complete", "catch"}

\* C4: no job is claimed and processed by more than one processNextJob
\* execution (each execution claims the one job its select returned).
C4_NoDoubleClaim ==
    \A t1, t2 \in Ticks :
        (t1 # t2 /\ Processing(t1) /\ Processing(t2)) => ex[t1].job # ex[t2].job

\* C5: never are two processNextJob executions between their claim write and
\* their terminal status write at the same time.
C5_OneJobAtATime ==
    Cardinality({ex[t].job : t \in {u \in Ticks : Processing(u)}}) <= 1

----------------------------------------------------------------------------
(* Claims about runFFmpeg of src/server.js (lines 74-107) *)

\* the trim-and-fade statement of the music, the last of the filter graph
MusicChain(args) == args.filter[Len(args.filter)]

\* seconds of picture: the black source runs for its d, the logo clip before
\* it for LOGO_VIDEO_DURATION_SECONDS
VisualLength(args) ==
    LET k == CHOOSE m \in 1..Len(args.inputs) : args.inputs[m].asset = "color"
    IN  args.inputs[k].n + (IF k > 1 THEN LOGO_VIDEO_DURATION_SECONDS ELSE 0)

\* the second at which the trimmed music stops
AudioEnd(args, musicLen) ==
    IF musicLen < MusicChain(args).duration THEN musicLen ELSE MusicChain(args).duration

\* the total visual length T the call is to produce
TargetLength(e) ==
    e.total_duration + (IF e.lPath # {} THEN LOGO_VIDEO_DURATION_SECONDS ELSE 0)

\* C34: for a positive total_duration D the music is trimmed to the total
\* visual length T (D, or D + 5 with a logo), its one-second fade-out starts at
\* T - 1 >= 0 and ends at T, and the music never outlasts the picture.
C34_MusicEndsWithPicture ==
    (ex.pc \in {"spawned", "resolved", "rejected"} /\ ex.total_duration >= 1) =>
        /\ MusicChain(ex.args).duration = TargetLength(ex)
        /\ MusicChain(ex.args).st = TargetLength(ex) - 1
        /\ MusicChain(ex.args).st >= 0
        /\ MusicChain(ex.args).st + MusicChain(ex.args).d = TargetLength(ex)
        /\ VisualLength(ex.args) = TargetLength(ex)
        /\ AudioEnd(ex.args, ex.musicLen) <= VisualLength(ex.args)

\* the encoder finished for a one-second job without logo (the fade starts at
\* 0) whose music file is longer than the picture
C34_Witness ==
    /\ ex.pc = "resolved" /\ ex.total_duration = 1 /\ ex.lPath = {}
    /\ ex.musicLen > TargetLength(ex)
    /\ MusicChain(ex.args).st = 0

----------------------------------------------------------------------------
(* Claims about processJob of src/unnamed/part_001 (lines 230-324) *)

\* the scene clips among the downloaded files of an execution
SceneClips(e) == {k \in 1..Len(e.rawPaths) : e.rawPaths[k].asset = "scene"}

\* C21: with zero materialized scene clips the encoder is never invoked and no
\* final filter graph is built, also when only the intro clip was
\* materialized.
C21_NoEncoderWithoutScenes ==
    \A j \in Jobs :
        (ex[j].encRuns > 0 \/ ex[j].finalArgs # NoArgs) => SceneClips(ex[j]) # {}

\* the inputs of one standardize invocation
InputsOf(args) == {args.inputs[k] : k \in 1..Len(args.inputs)}

\* the probe found an audio stream: the invocation reads the clip's own audio
OwnAudioUsed(args) ==
    \E k \in 1..Len(args.filter) :
        \E o \in 1..Len(args.filter[k].ins) : args.filter[k].ins[o] = InPad(0, "a")

\* C31: every standardize invocation maps exactly one video and exactly one
\* audio stream, and the silent source is among its inputs exactly when the
\* probe reported no audio stream for the clip.
C31_SilenceExactlyWithoutAudio ==
    \A j \in Jobs :
        \A k \in 1..Len(ex[j].stdArgs) :
            /\ OneVideoOneAudio(ex[j].stdArgs[k])
            /\ (Anullsrc \in InputsOf(ex[j].stdArgs[k]))
                   <=> ~OwnAudioUsed(ex[j].stdArgs[k])

----------------------------------------------------------------------------
(* Claims about processJob of src/unnamed/part_004 (lines 148-241) *)

\* C22: no local temporary, intermediate or output file path is in use by two
\* executions at the same time, also for two executions of the same job id.
C22_NoSharedLocalPath ==
    \A r1, r2 \in Runs : r1 # r2 => ex[r1].using \cap ex[r2].using = {}

\* C23: within one execution the manifest is read before any fetch, and no
\* fetch happens after an encoder invocation has started.
C23_FetchesBeforeEncoder ==
    [][\A r \in Runs :
          ex'[r].fetches > ex[r].fetches => (ex[r].reads > 0 /\ ex[r].encRuns = 0)]_vars

====
